---- MODULE Spec2Model ----
(***************************************************************************)
(* A model of the agent of crowecawcaw/agent: the conversation loop of     *)
(* agent.go (ProcessWithDirectService), its message log, the Live Context  *)
(* store of live_context.go, the consolidation of update_context calls and *)
(* the merging of streamed tool-call fragments.                            *)
(*                                                                         *)
(* Strings are sequences of tokens, so that strings.Contains and string    *)
(* concatenation are computed and not assumed.  A Go error is the chain of *)
(* its wrappers, outermost first, ending in the wrapped cause; nil is the  *)
(* empty chain.  Tool-call ids are numbers, 0 standing for the empty id.   *)
(***************************************************************************)
EXTENDS Integers, Sequences, FiniteSets, TLC

(***************************************************************************)
(* Bounds of the model.                                                    *)
(***************************************************************************)
MaxCalls == 3
MaxToolCalls == 4
MaxInputs == 1
MaxRawIterations == 1
MaxFrags == 3
MaxList == 3
MaxLog == 3
MaxSubDirs == 2
MaxSubFiles == 2
MaxContent == 2
MaxCreates == 2
MaxEditLen == 3
MaxRangeLines == 3

(***************************************************************************)
(* Constants of the program.                                               *)
(***************************************************************************)
maxIterations == -1
maxConsecutiveFailures == 3
DefaultMaxIterations == 10
MaxLineLength == 2000
MaxFileLines == 2000
maxItems == 100
maxDepth == 10
timeout == 30

VARIABLES
    Messages,               \* AgentConfig.Messages
    files,                  \* LiveContext.files
    directories,            \* LiveContext.directories
    disk,                   \* the files on disk
    config,                 \* the loaded Config
    RecentRequest,          \* Debug.RecentRequest, <<>> when nil
    RecentResponse,         \* Debug.RecentResponse, <<>> when nil
    pc,                     \* where ProcessWithDirectService stands
    iteration,              \* its loop counter
    consecutiveFailures,    \* its failure counter
    consolidatedToolCalls,  \* the calls of the current assistant message
    toolResults,            \* the results gathered for them so far
    allToolsSucceeded,
    ret,                    \* what the last call of the loop returned
    nextID,                 \* the next id the backend assigns
    inputs,                 \* user inputs taken so far
    inProgress,             \* Chatbot.inProgress
    cancelled,              \* the request context has been cancelled
    exited,                 \* os.Exit was called
    chunks,                 \* the tool-call fragments received so far
    toolCallsMap,           \* the merged tool calls, by id
    input,                  \* the argument of the function under check
    output                  \* <<>>, or its result in a one-element sequence

vars == <<Messages, files, directories, disk, config, RecentRequest,
          RecentResponse, pc, iteration, consecutiveFailures,
          consolidatedToolCalls, toolResults, allToolsSucceeded, ret, nextID,
          inputs, inProgress, cancelled, exited, chunks, toolCallsMap, input,
          output>>

agentVars == <<Messages, files, directories, disk, config, RecentRequest,
               RecentResponse, pc, iteration, consecutiveFailures,
               consolidatedToolCalls, toolResults, allToolsSucceeded, ret,
               nextID, inputs, inProgress, cancelled, exited>>

streamVars == <<chunks, toolCallsMap>>

funcVars == <<input, output>>

(***************************************************************************)
(* Strings and errors.                                                     *)
(***************************************************************************)
\* strings.Contains on token sequences
Contains(s, sub) ==
    \E i \in 0..(Len(s) - Len(sub)) : SubSeq(s, i + 1, i + Len(sub)) = sub

Nil == <<>>
ContextCanceled == <<"context canceled">>

\* fmt.Errorf("msg: %w", err)
Wrap(msg, err) == <<msg>> \o err

\* errors.Is(err, target): some error of the chain is the target
ErrorsIs(err, target) ==
    \E i \in 1..Len(err) : SubSeq(err, i, Len(err)) = target

(***************************************************************************)
(* The files on disk.  A file is kept as the lines strings.Split(content,  *)
(* "\n") gives, so an existing file has at least one line.                 *)
(***************************************************************************)
DiskPaths == {"README.md", "a.go"}

\* the spellings of a path the model uses, and the file each names
PathSpellings == {"README.md", "a.go", "./a.go"}

Canon(p) == IF p = "./a.go" THEN "a.go" ELSE p

NoFile == [exists |-> FALSE, lines |-> <<>>]

File(ls) == [exists |-> TRUE, lines |-> ls]

\* len(line): a line is the sequence of its bytes
LineLen(line) == Len(line)

\* strings.Split(s, "\n"): the lines of a text, by halves
RECURSIVE StringsSplit(_)
StringsSplit(s) ==
    IF \A i \in 1..Len(s) : s[i] # "\n" THEN <<s>>
    ELSE IF Len(s) = 1 THEN << <<>>, <<>> >>
    ELSE LET mid == Len(s) \div 2
             l == StringsSplit(SubSeq(s, 1, mid))
             r == StringsSplit(SubSeq(s, mid + 1, Len(s)))
         IN SubSeq(l, 1, Len(l) - 1) \o <<l[Len(l)] \o r[1]>> \o Tail(r)

\* a faulty variant of strings.Join: the lines are glued without "\n"
JoinWithoutNewlines(elems) ==
    IF Len(elems) = 0 THEN <<>> ELSE elems[1]

\* strings.Join(elems, "\n"), by halves
RECURSIVE StringsJoin(_)
StringsJoin(elems) ==
    IF Len(elems) = 0 THEN <<>>
    ELSE IF Len(elems) = 1 THEN elems[1]
    ELSE LET mid == Len(elems) \div 2
         IN StringsJoin(SubSeq(elems, 1, mid)) \o <<"\n">>
            \o StringsJoin(SubSeq(elems, mid + 1, Len(elems)))

\* strings.Index(s, substr), counted from 0; -1 when substr is not in s
StringsIndex(s, substr) ==
    LET At(i) == SubSeq(s, i + 1, i + Len(substr)) = substr
        hits == {i \in 0..(Len(s) - Len(substr)) : At(i)}
    IN IF hits = {} THEN -1
       ELSE CHOOSE i \in hits : \A j \in hits : i <= j

\* a faulty variant of strings.Replace(s, old, new, 1): the last occurrence
\* is replaced
ReplaceLast(s, old, new) ==
    LET hits == {i \in 0..(Len(s) - Len(old)) :
                    SubSeq(s, i + 1, i + Len(old)) = old}
    IN IF hits = {} THEN s
       ELSE LET j == CHOOSE i \in hits : \A k \in hits : k <= i
            IN SubSeq(s, 1, j) \o new \o SubSeq(s, j + Len(old) + 1, Len(s))

\* strings.Replace(s, old, new, 1)
StringsReplace(s, old, new) ==
    IF old = new \/ StringsIndex(s, old) = -1 THEN s
    ELSE LET j == StringsIndex(s, old)
         IN SubSeq(s, 1, j) \o new \o SubSeq(s, j + Len(old) + 1, Len(s))

\* os.ReadFile of a file on disk
ReadFile(f) == StringsJoin(f.lines)

(***************************************************************************)
(* live_context.go: the Live Context store.  A store operation gives the   *)
(* error it returns (Nil for none) and the map it leaves.                  *)
(***************************************************************************)
FileInfo(p, startLine, endLine) ==
    [Path |-> p, StartLine |-> startLine, EndLine |-> endLine]

DirectoryInfo(p, ignoreGitignore, ignorePatterns) ==
    [Path |-> p, IgnoreGitignore |-> ignoreGitignore,
     IgnorePatterns |-> ignorePatterns]

\* m[k] = v of a Go map
MapPut(m, k, v) == [x \in DOMAIN m \cup {k} |-> IF x = k THEN v ELSE m[x]]

\* delete(m, k)
MapDelete(m, k) == [x \in DOMAIN m \ {k} |-> m[x]]

EmptyMap == <<>>

\* faulty variants of the store operations: the add forgets the other
\* entries, the remove empties the map
AddFileAlone(fs, filePath, startLine, endLine) ==
    [err |-> Nil,
     files |-> MapPut(EmptyMap, filePath,
                      [Path |-> filePath, StartLine |-> startLine,
                       EndLine |-> endLine])]

RemoveFileAndOthers(fs, filePath) ==
    IF filePath \notin DOMAIN fs
    THEN [err |-> <<"file not found in live context">>, files |-> fs]
    ELSE [err |-> Nil, files |-> EmptyMap]

AddFile(fs, filePath, startLine, endLine) ==
    IF filePath = ""
    THEN [err |-> <<"file path cannot be empty">>, files |-> fs]
    ELSE [err |-> Nil,
          files |-> MapPut(fs, filePath,
                           FileInfo(filePath,
                                    IF startLine <= 0 THEN 1 ELSE startLine,
                                    endLine))]

RemoveFile(fs, filePath) ==
    IF filePath \notin DOMAIN fs
    THEN [err |-> <<"file not found in live context">>, files |-> fs]
    ELSE [err |-> Nil, files |-> MapDelete(fs, filePath)]

AddDirectory(ds, dirPath, ignoreGitignore, ignorePatterns) ==
    IF dirPath = ""
    THEN [err |-> <<"directory path cannot be empty">>, directories |-> ds]
    ELSE [err |-> Nil,
          directories |-> MapPut(ds, dirPath,
                                 DirectoryInfo(dirPath, ignoreGitignore,
                                               ignorePatterns))]

RemoveDirectory(ds, dirPath) ==
    IF dirPath \notin DOMAIN ds
    THEN [err |-> <<"directory not found in live context">>,
          directories |-> ds]
    ELSE [err |-> Nil, directories |-> MapDelete(ds, dirPath)]

\* One line of a serialized file: num is its line number when the file is
\* shown with line numbers (0 when not), cut says it was cut to the cap.
OutLine(num, text, cut) == [num |-> num, text |-> text, cut |-> cut]

\* the line "... (truncated after n lines)"; it carries no line number
TruncationMarker(n) ==
    [num |-> 0, text |-> <<"... (truncated after ", ToString(n), " lines)">>,
     cut |-> FALSE]

ReadError(msg) == [err |-> <<msg>>, lines |-> <<>>]

\* a faulty variant of readFileWithOptions: a negative end line counts from
\* the line before the last
readFileCountingFromBeforeTheEnd(fileInfo, d) ==
    LET f == d[Canon(fileInfo.Path)] IN
    IF ~f.exists THEN ReadError("no such file or directory")
    ELSE
    LET lines == f.lines
        totalLines == Len(lines)
        startLine == IF fileInfo.StartLine < 1 THEN 1 ELSE fileInfo.StartLine
    IN
    IF startLine > totalLines THEN ReadError("start line exceeds file length")
    ELSE
    LET wanted == IF fileInfo.EndLine # <<>>
                  THEN IF fileInfo.EndLine[1] < 0
                       THEN totalLines + fileInfo.EndLine[1]
                       ELSE fileInfo.EndLine[1]
                  ELSE totalLines
        endLine == IF wanted > totalLines THEN totalLines ELSE wanted
    IN
    IF endLine < startLine THEN ReadError("end line is before start line")
    ELSE
    LET selectedLines == SubSeq(lines, startLine, endLine)
        n == Len(selectedLines)
        \* the loop stops at the first line it meets with more than
        \* MaxFileLines lines already processed
        kept == IF n > MaxFileLines + 1 THEN MaxFileLines + 1 ELSE n
        numbered == fileInfo.StartLine > 1 \/ fileInfo.EndLine # <<>>
        processed(i) ==
            OutLine(IF numbered THEN startLine + i - 1 ELSE 0,
                    selectedLines[i],
                    LineLen(selectedLines[i]) > MaxLineLength)
    IN
    [err |-> Nil,
     lines |-> [i \in 1..kept |-> processed(i)]
               \o (IF n > kept THEN <<TruncationMarker(kept)>> ELSE <<>>)]

readFileWithOptions(fileInfo, d) ==
    LET f == d[Canon(fileInfo.Path)] IN
    IF ~f.exists THEN ReadError("no such file or directory")
    ELSE
    LET lines == f.lines
        totalLines == Len(lines)
        startLine == IF fileInfo.StartLine < 1 THEN 1 ELSE fileInfo.StartLine
    IN
    IF startLine > totalLines THEN ReadError("start line exceeds file length")
    ELSE
    LET wanted == IF fileInfo.EndLine # <<>>
                  THEN IF fileInfo.EndLine[1] < 0
                       THEN totalLines + fileInfo.EndLine[1] + 1
                       ELSE fileInfo.EndLine[1]
                  ELSE totalLines
        endLine == IF wanted > totalLines THEN totalLines ELSE wanted
    IN
    IF endLine < startLine THEN ReadError("end line is before start line")
    ELSE
    LET selectedLines == SubSeq(lines, startLine, endLine)
        n == Len(selectedLines)
        \* the loop stops at the first line it meets with more than
        \* MaxFileLines lines already processed
        kept == IF n > MaxFileLines + 1 THEN MaxFileLines + 1 ELSE n
        numbered == fileInfo.StartLine > 1 \/ fileInfo.EndLine # <<>>
        processed(i) ==
            OutLine(IF numbered THEN startLine + i - 1 ELSE 0,
                    selectedLines[i],
                    LineLen(selectedLines[i]) > MaxLineLength)
    IN
    [err |-> Nil,
     lines |-> [i \in 1..kept |-> processed(i)]
               \o (IF n > kept THEN <<TruncationMarker(kept)>> ELSE <<>>)]

\* the string a processed line is in the text the reader returns
ProcessedLine(l) ==
    (IF l.num > 0 THEN <<ToString(l.num), ": ">> ELSE <<>>)
    \o (IF l.cut THEN SubSeq(l.text, 1, MaxLineLength) \o <<"...">>
        ELSE l.text)

\* the text the reader returns: strings.Join(processedLines, "\n")
ContentOf(body) ==
    StringsJoin([i \in 1..Len(body.lines) |-> ProcessedLine(body.lines[i])])

\* The sections of the files part of the prompt, by tracked path (Go ranges
\* over the map in no fixed order); no section stands for "No files in live
\* context".
SerializeFiles(fs, d) ==
    [p \in DOMAIN fs |->
        [path |-> p, start |-> fs[p].StartLine, end |-> fs[p].EndLine,
         body |-> readFileWithOptions(fs[p], d)]]

ListFiles(fs) == DOMAIN fs

ListDirectories(ds) == DOMAIN ds

(***************************************************************************)
(* JSON.  The arguments of a tool call are a string; it is kept here as    *)
(* what json.Unmarshal makes of it: not valid, or an object from keys to   *)
(* values.  A value is a string, a number, an object of scalar fields or   *)
(* an array of values.                                                     *)
(***************************************************************************)
JStr(s) == [kind |-> "string", s |-> s, fields |-> <<>>, items |-> <<>>]

JNum(n) == [kind |-> "number", s |-> "", fields |-> <<>>, items |-> <<n>>]

JObj(f) == [kind |-> "object", s |-> "", fields |-> f, items |-> <<>>]

JArr(xs) == [kind |-> "array", s |-> "", fields |-> <<>>, items |-> xs]

Args(obj) == [valid |-> TRUE, obj |-> obj]

BadArgs == [valid |-> FALSE, obj |-> <<>>]

ToolCall(id, name, arguments) ==
    [ID |-> id, Type |-> "function",
     Function |-> [Name |-> name, Arguments |-> arguments]]

(***************************************************************************)
(* unnamed/part_001: the update_context tool.  st holds the store and the  *)
(* lists Execute gathers.                                                  *)
(***************************************************************************)
extractFileParams(param) ==
    CASE param.kind = "string" ->
           [path |-> param.s, startLine |-> 1, endLine |-> <<>>]
      [] param.kind = "object" ->
           [path |-> IF "path" \in DOMAIN param.fields
                     THEN param.fields.path ELSE "",
            startLine |-> IF "start_line" \in DOMAIN param.fields
                          THEN param.fields.start_line ELSE 1,
            endLine |-> IF "end_line" \in DOMAIN param.fields
                        THEN <<param.fields.end_line>> ELSE <<>>]
      [] OTHER -> [path |-> "", startLine |-> 1, endLine |-> <<>>]

extractDirParams(param) ==
    CASE param.kind = "string" ->
           [path |-> param.s, ignoreGitignore |-> TRUE,
            ignorePatterns |-> <<>>]
      [] param.kind = "object" ->
           [path |-> IF "path" \in DOMAIN param.fields
                     THEN param.fields.path ELSE "",
            ignoreGitignore |-> IF "ignore_gitignore" \in DOMAIN param.fields
                                THEN param.fields.ignore_gitignore ELSE TRUE,
            \* the comma-separated patterns, split and trimmed
            ignorePatterns |-> IF "ignore_patterns" \in DOMAIN param.fields
                               THEN SelectSeq(param.fields.ignore_patterns,
                                              LAMBDA x : x # "")
                               ELSE <<>>]
      [] OTHER -> [path |-> "", ignoreGitignore |-> TRUE,
                   ignorePatterns |-> <<>>]

AddFileItem(item, st) ==
    LET p == extractFileParams(item) IN
    IF p.path = ""
    THEN [st EXCEPT !.errors = Append(@, "Invalid file parameter")]
    ELSE IF p.endLine # <<>> /\ p.startLine >= p.endLine[1]
    THEN [st EXCEPT !.errors =
                        Append(@, "start_line must be less than end_line")]
    ELSE LET r == AddFile(st.files, p.path, p.startLine, p.endLine) IN
         IF r.err # Nil
         THEN [st EXCEPT !.errors = Append(@, "Failed to add file")]
         ELSE [st EXCEPT !.files = r.files,
                         !.addedFiles = Append(@, p.path)]

AddDirItem(item, st) ==
    LET p == extractDirParams(item) IN
    IF p.path = ""
    THEN [st EXCEPT !.errors = Append(@, "Invalid directory parameter")]
    ELSE LET r == AddDirectory(st.directories, p.path, p.ignoreGitignore,
                               p.ignorePatterns) IN
         IF r.err # Nil
         THEN [st EXCEPT !.errors = Append(@, "Failed to add directory")]
         ELSE [st EXCEPT !.directories = r.directories,
                         !.addedDirs = Append(@, p.path)]

RemoveFilePath(path, st) ==
    LET r == RemoveFile(st.files, path) IN
    IF r.err # Nil
    THEN [st EXCEPT !.errors = Append(@, "Failed to remove file")]
    ELSE [st EXCEPT !.files = r.files, !.removedFiles = Append(@, path)]

RemoveDirPath(path, st) ==
    LET r == RemoveDirectory(st.directories, path) IN
    IF r.err # Nil
    THEN [st EXCEPT !.errors = Append(@, "Failed to remove directory")]
    ELSE [st EXCEPT !.directories = r.directories,
                    !.removedDirs = Append(@, path)]

\* a string is removed by its text, an object by its "path" when it has
\* one, and anything else is passed over
RemoveFileItem(item, st) ==
    CASE item.kind = "string" -> RemoveFilePath(item.s, st)
      [] item.kind = "object" /\ "path" \in DOMAIN item.fields ->
           RemoveFilePath(item.fields.path, st)
      [] OTHER -> st

RemoveDirItem(item, st) ==
    CASE item.kind = "string" -> RemoveDirPath(item.s, st)
      [] item.kind = "object" /\ "path" \in DOMAIN item.fields ->
           RemoveDirPath(item.fields.path, st)
      [] OTHER -> st

\* what Execute does with one item of the parameter named key
ApplyItem(key, item, st) ==
    CASE key = "add_file" -> AddFileItem(item, st)
      [] key = "add_directory" -> AddDirItem(item, st)
      [] key = "remove_file" -> RemoveFileItem(item, st)
      [] key = "remove_directory" -> RemoveDirItem(item, st)

RECURSIVE ForEachItem(_, _, _)
ForEachItem(key, items, st) ==
    IF items = <<>> THEN st
    ELSE ForEachItem(key, Tail(items), ApplyItem(key, Head(items), st))

\* the error Execute records when a parameter has no type it handles
TypeError(key) ==
    IF key \in {"add_file", "remove_file"}
    THEN "Invalid file parameter type"
    ELSE "Invalid directory parameter type"

\* the switch on the type of one parameter of update_context
ProcessParam(params, key, st) ==
    IF key \notin DOMAIN params THEN st
    ELSE CASE params[key].kind \in {"string", "object"} ->
                ApplyItem(key, params[key], st)
           [] params[key].kind = "array" ->
                ForEachItem(key, params[key].items, st)
           [] OTHER -> [st EXCEPT !.errors = Append(@, TypeError(key))]

\* the order in which Execute goes through its parameters
ParamOrder == <<"add_file", "add_directory", "remove_file", "remove_directory">>

RECURSIVE ProcessParams(_, _, _)
ProcessParams(keys, params, st) ==
    IF keys = <<>> THEN st
    ELSE ProcessParams(Tail(keys), params,
                       ProcessParam(params, Head(keys), st))

\* a faulty variant of ExecuteResult: a call of which no operation
\* succeeded is an error
ExecuteResultOfSuccesses(st) ==
    IF /\ st.addedFiles = <<>> /\ st.removedFiles = <<>>
       /\ st.addedDirs = <<>> /\ st.removedDirs = <<>>
    THEN [result |-> <<>>, err |-> <<"no operations specified">>,
          files |-> st.files, directories |-> st.directories]
    ELSE [result |-> <<"Ok">>, err |-> Nil,
          files |-> st.files, directories |-> st.directories]

\* what Execute returns once the parameters are gone through
ExecuteResult(st) ==
    IF /\ st.addedFiles = <<>> /\ st.removedFiles = <<>>
       /\ st.addedDirs = <<>> /\ st.removedDirs = <<>>
       /\ st.errors = <<>>
    THEN [result |-> <<>>, err |-> <<"no operations specified">>,
          files |-> st.files, directories |-> st.directories]
    ELSE [result |-> <<"Ok">>, err |-> Nil,
          files |-> st.files, directories |-> st.directories]

UpdateContextExecute(params, fs, ds) ==
    ExecuteResult(
        ProcessParams(ParamOrder, params,
                      [files |-> fs, directories |-> ds, addedFiles |-> <<>>,
                       removedFiles |-> <<>>, addedDirs |-> <<>>,
                       removedDirs |-> <<>>, errors |-> <<>>]))

(***************************************************************************)
(* agent.go: the message log.                                              *)
(***************************************************************************)
Message(role, text, toolName, toolUseID, toolCalls) ==
    [Role |-> role, Content |-> text, ToolName |-> toolName,
     ToolUseID |-> toolUseID, ToolCalls |-> toolCalls]

AddUserMessage(msgs, text) ==
    Append(msgs, Message("user", text, "", 0, <<>>))

\* a faulty variant of AddAgentMessage: the message is not recorded
DiscardAgentMessage(msgs, text) == msgs

AddAgentMessage(msgs, text) ==
    Append(msgs, Message("assistant", text, "", 0, <<>>))

AddAgentMessageWithToolCalls(msgs, text, toolCalls) ==
    Append(msgs, Message("assistant", text, "", 0, toolCalls))

ToolResult(id, name, text, isError) ==
    [ID |-> id, Name |-> name, Content |-> text, IsError |-> isError]

AddToolResultsMessage(msgs, results) ==
    msgs \o [i \in 1..Len(results) |->
                Message("tool", results[i].Content, results[i].Name,
                        results[i].ID, <<>>)]

\* a pattern of at most one token as the string it stands for
Pattern(s) == IF s = "" THEN <<>> ELSE <<s>>

MatchesMessage(msg, role, contentContains) ==
    msg.Role = role /\ Contains(msg.Content, Pattern(contentContains))

\* a faulty variant of DeleteMessage: the match is reported and the log
\* left as it is
DeleteWithoutRemoving(msgs, role, contentContains) ==
    [deleted |-> \E i \in 1..Len(msgs) :
                     MatchesMessage(msgs[i], role, contentContains),
     Messages |-> msgs]

\* the first message of that role whose content holds the text is sliced
\* out of the log
DeleteMessage(msgs, role, contentContains) ==
    LET hits == {i \in 1..Len(msgs) :
                    MatchesMessage(msgs[i], role, contentContains)}
    IN IF hits = {}
       THEN [deleted |-> FALSE, Messages |-> msgs]
       ELSE LET i == CHOOSE j \in hits : \A k \in hits : j <= k IN
            [deleted |-> TRUE,
             Messages |-> SubSeq(msgs, 1, i - 1)
                          \o SubSeq(msgs, i + 1, Len(msgs))]

ClearHistory(msgs) == <<>>

(***************************************************************************)
(* tools/message.go: the delete_message tool.                              *)
(***************************************************************************)
IsString(params, key) == key \in DOMAIN params /\ params[key].kind = "string"

MessageToolExecute(params, msgs) ==
    IF ~IsString(params, "role")
    THEN [result |-> <<>>, err |-> <<"role must be one of: user, assistant, tool">>,
          Messages |-> msgs]
    ELSE IF ~IsString(params, "content_contains")
    THEN [result |-> <<>>, err |-> <<"must provide either content_contains">>,
          Messages |-> msgs]
    ELSE LET role == params["role"].s
             contentContains == params["content_contains"].s
             d == DeleteMessage(msgs, role, contentContains)
         IN IF d.deleted
            THEN [result |-> <<"Deleted", role, "message containing:">>
                             \o Pattern(contentContains),
                  err |-> Nil, Messages |-> d.Messages]
            ELSE [result |-> <<"Message not found">>, err |-> Nil,
                  Messages |-> d.Messages]

(***************************************************************************)
(* tools/edit_files.go: the edit_file tool.  old_string and new_string are *)
(* whole lines, so strings.Count counts the lines equal to old_string.     *)
(***************************************************************************)
validateAndResolvePath(filePath) == Canon(filePath)

CountLines(lines, old) == Cardinality({i \in 1..Len(lines) : lines[i] = old})

ReplaceAllLines(lines, old, new) ==
    [i \in 1..Len(lines) |-> IF lines[i] = old THEN new ELSE lines[i]]

ReplaceFirstLine(lines, old, new) ==
    LET first == CHOOSE i \in 1..Len(lines) :
                     lines[i] = old /\ \A j \in 1..(i - 1) : lines[j] # old
    IN [lines EXCEPT ![first] = new]

ToolFailure(msg, d) == [result |-> <<>>, err |-> <<msg>>, disk |-> d]

EditFileExecute(params, d) ==
    IF "file_path" \notin DOMAIN params
    THEN ToolFailure("file_path parameter is required", d)
    ELSE IF params["file_path"].kind # "string"
    THEN ToolFailure("file_path must be a string", d)
    ELSE IF "old_string" \notin DOMAIN params
    THEN ToolFailure("old_string parameter is required", d)
    ELSE IF params["old_string"].kind # "string"
    THEN ToolFailure("old_string must be a string", d)
    ELSE IF "new_string" \notin DOMAIN params
    THEN ToolFailure("new_string parameter is required", d)
    ELSE IF params["new_string"].kind # "string"
    THEN ToolFailure("new_string must be a string", d)
    ELSE
    LET expectedReplacements ==
            IF /\ "expected_replacements" \in DOMAIN params
               /\ params["expected_replacements"].kind = "number"
            THEN params["expected_replacements"].items[1] ELSE 1
        absPath == validateAndResolvePath(params["file_path"].s)
        oldString == params["old_string"].s
        newString == params["new_string"].s
    IN
    IF absPath \notin DOMAIN d \/ ~d[absPath].exists
    THEN ToolFailure("failed to read file", d)
    ELSE
    LET oldContent == d[absPath].lines
        count == CountLines(oldContent, oldString)
    IN
    IF count = 0 THEN ToolFailure("could not find text to replace", d)
    ELSE IF count # expectedReplacements
    THEN ToolFailure("unexpected number of occurrences", d)
    ELSE
    LET newContent == IF expectedReplacements = 1
                      THEN ReplaceFirstLine(oldContent, oldString, newString)
                      ELSE ReplaceAllLines(oldContent, oldString, newString)
    IN [result |-> <<"Ok">>, err |-> Nil,
        disk |-> [d EXCEPT ![absPath] = File(newContent)]]

(***************************************************************************)
(* agent.go: consolidation of the update_context calls of one response.    *)
(***************************************************************************)
IsUpdateContext(call) == call.Function.Name = "update_context"

\* the values the calls give for one key, in call order; a call whose
\* arguments do not parse is passed over
CollectKey(calls, key) ==
    LET having == SelectSeq(calls,
                      LAMBDA c : /\ c.Function.Arguments.valid
                                 /\ key \in DOMAIN c.Function.Arguments.obj)
    IN [i \in 1..Len(having) |-> having[i].Function.Arguments.obj[key]]

MergeKeys == {"add_file", "remove_file", "add_directory", "remove_directory"}

\* a faulty variant of mergeUpdateContextCalls: the merged call carries the
\* id of the last call
MergeUnderLastID(calls) ==
    IF calls = <<>> THEN ToolCall(0, "", Args(<<>>))
    ELSE ToolCall(calls[Len(calls)].ID, "update_context", Args(<<>>))

\* a faulty variant of mergeUpdateContextCalls: the value of a key that one
\* call only gives is wrapped in a list too
MergeAlwaysWrapping(calls) ==
    IF calls = <<>>
    THEN [ID |-> 0, Type |-> "",
          Function |-> [Name |-> "", Arguments |-> BadArgs]]
    ELSE
    LET present == {k \in MergeKeys : Len(CollectKey(calls, k)) > 0}
    IN ToolCall(calls[1].ID, "update_context",
                Args([k \in present |-> JArr(CollectKey(calls, k))]))

mergeUpdateContextCalls(calls) ==
    IF calls = <<>>
    THEN [ID |-> 0, Type |-> "",
          Function |-> [Name |-> "", Arguments |-> BadArgs]]
    ELSE
    LET firstCall == calls[1]
        present == {k \in MergeKeys : Len(CollectKey(calls, k)) > 0}
        mergedParams ==
            [k \in present |->
                IF Len(CollectKey(calls, k)) = 1
                THEN CollectKey(calls, k)[1]
                ELSE JArr(CollectKey(calls, k))]
    IN ToolCall(firstCall.ID, "update_context", Args(mergedParams))

\* a faulty variant of ConsolidateUpdateContextCalls: a single
\* update_context call is merged too
ConsolidateAlways(toolCalls) ==
    LET updateContextCalls == SelectSeq(toolCalls, IsUpdateContext)
        otherCalls == SelectSeq(toolCalls, LAMBDA c : ~IsUpdateContext(c))
    IN IF Len(updateContextCalls) > 0
       THEN <<mergeUpdateContextCalls(updateContextCalls)>> \o otherCalls
       ELSE toolCalls

\* a faulty variant of ConsolidateUpdateContextCalls: the other calls are
\* put back under the id of the merged call
ConsolidateRenumberingOthers(toolCalls) ==
    LET updateContextCalls == SelectSeq(toolCalls, IsUpdateContext)
        otherCalls == SelectSeq(toolCalls, LAMBDA c : ~IsUpdateContext(c))
        merged == mergeUpdateContextCalls(updateContextCalls)
    IN IF Len(updateContextCalls) > 1
       THEN <<merged>> \o
            [i \in 1..Len(otherCalls) |->
                [otherCalls[i] EXCEPT !.ID = merged.ID]]
       ELSE toolCalls

\* a faulty variant of ConsolidateUpdateContextCalls: the merged call is
\* put after the other calls
ConsolidateMergedLast(toolCalls) ==
    LET updateContextCalls == SelectSeq(toolCalls, IsUpdateContext)
        otherCalls == SelectSeq(toolCalls, LAMBDA c : ~IsUpdateContext(c))
    IN IF Len(updateContextCalls) > 1
       THEN otherCalls \o <<mergeUpdateContextCalls(updateContextCalls)>>
       ELSE toolCalls

ConsolidateUpdateContextCalls(toolCalls) ==
    IF Len(toolCalls) <= 1 THEN toolCalls
    ELSE
    LET updateContextCalls == SelectSeq(toolCalls, IsUpdateContext)
        otherCalls == SelectSeq(toolCalls, LAMBDA c : ~IsUpdateContext(c))
    IN IF Len(updateContextCalls) > 1
       THEN <<mergeUpdateContextCalls(updateContextCalls)>> \o otherCalls
       ELSE toolCalls

(***************************************************************************)
(* tools/shell.go: the shell tool.  A command is the sequence of its       *)
(* words, blanks " " and separators.  What running a command comes to is   *)
(* the environment's: whether it starts, how the wait for it ends ("ok",   *)
(* "exit" with a non-zero code, "timeout", or "other"), and its output.    *)
(***************************************************************************)
Run(starts, wait, exitCode, out) ==
    [starts |-> starts, wait |-> wait, exitCode |-> exitCode, output |-> out]

\* members of the deniedCommands list
deniedCommands == {<<"sudo">>, <<"rm">>}

separators == {"|", ";", "&&", "||"}

\* the directories that exist, and the paths that are absolute
ExistingDirs == {".", "src"}

AbsoluteDirs == {"/tmp"}

\* strings.TrimSpace
RECURSIVE TrimSpace(_)
TrimSpace(command) ==
    IF command = <<>> THEN <<>>
    ELSE IF Head(command) = " " THEN TrimSpace(Tail(command))
    ELSE IF command[Len(command)] = " "
    THEN TrimSpace(SubSeq(command, 1, Len(command) - 1))
    ELSE command

\* strings.HasPrefix(part, denied), ending at a word boundary
HasDeniedPrefix(part, denied) ==
    Len(part) >= Len(denied) /\ SubSeq(part, 1, Len(denied)) = denied

\* the parts of a command between separators, each trimmed
RECURSIVE Parts(_, _)
Parts(command, part) ==
    IF command = <<>> THEN {TrimSpace(part)}
    ELSE IF Head(command) \in separators
    THEN {TrimSpace(part)} \cup Parts(Tail(command), <<>>)
    ELSE Parts(Tail(command), Append(part, Head(command)))

\* the error validateCommandSafety returns, Nil for none
validateCommandSafety(command) ==
    IF \E denied \in deniedCommands :
           \/ HasDeniedPrefix(command, denied)
           \/ \E part \in Parts(command, <<>>) : HasDeniedPrefix(part, denied)
    THEN <<"command is not allowed for security reasons">>
    ELSE Nil

\* the error extractParams returns, Nil for none
extractParams(params) ==
    IF ~IsString(params, "command")
    THEN <<"command parameter must be a string">>
    ELSE IF TrimSpace(params["command"].s) = <<>>
    THEN <<"command cannot be empty">>
    ELSE IF validateCommandSafety(TrimSpace(params["command"].s)) # Nil
    THEN Wrap("shell", validateCommandSafety(TrimSpace(params["command"].s)))
    ELSE IF IsString(params, "working_directory")
            /\ params["working_directory"].s # ""
    THEN IF params["working_directory"].s \in AbsoluteDirs
         THEN <<"working_directory must be relative">>
         ELSE IF params["working_directory"].s \notin ExistingDirs
         THEN <<"working directory does not exist">>
         ELSE Nil
    ELSE Nil

formatResult(out, err) ==
    <<"Command failed:">> \o err
    \o (IF Len(out) > 0 THEN <<"Output:">> \o out ELSE <<>>)

executeCommand(run, ctxCancelled) ==
    IF ~run.starts
    THEN [result |-> <<>>, err |-> <<"failed to start command">>]
    ELSE IF run.wait = "ok" THEN [result |-> run.output, err |-> Nil]
    ELSE IF ctxCancelled
    THEN [result |-> formatResult(run.output, <<"command cancelled">>),
          err |-> Nil]
    ELSE IF run.wait = "timeout"
    THEN [result |-> formatResult(run.output,
                                  <<"command timed out after",
                                    ToString(timeout), "s">>),
          err |-> Nil]
    ELSE IF run.wait = "exit"
    THEN [result |-> formatResult(run.output,
                                  <<"command failed with exit code",
                                    ToString(run.exitCode)>>),
          err |-> Nil]
    ELSE [result |-> formatResult(run.output, <<"command failed">>),
          err |-> Nil]

\* a faulty variant of the shell tool: a command that does not end well is
\* an error
ShellFailsWithTheCommand(params, run, ctxCancelled) ==
    IF extractParams(params) # Nil
    THEN [result |-> <<>>,
          err |-> Wrap("parameter validation failed", extractParams(params))]
    ELSE IF ~run.starts \/ run.wait # "ok"
    THEN [result |-> run.output, err |-> <<"shell", "command failed">>]
    ELSE [result |-> run.output, err |-> Nil]

\* ShellTool.Execute
ShellToolExecute(params, run, ctxCancelled) ==
    IF extractParams(params) # Nil
    THEN [result |-> <<>>,
          err |-> Wrap("parameter validation failed", extractParams(params))]
    ELSE LET r == executeCommand(run, ctxCancelled)
         IN IF r.err # Nil
            THEN [result |-> r.result, err |-> Wrap("shell", r.err)]
            ELSE r

(***************************************************************************)
(* agent.go: the dispatch of one tool call.  The outcome is the result,    *)
(* the error and the state the tool leaves.  create_file and delete_file   *)
(* are registered; the backend of this model issues no call to them.  A    *)
(* shell command runs as input, the environment's choice, says.            *)
(***************************************************************************)
RegisteredTools ==
    {"update_context", "create_file", "edit_file", "delete_file", "shell",
     "delete_message"}

Outcome(result, err, msgs, fs, ds, d) ==
    [result |-> result, err |-> err, Messages |-> msgs, files |-> fs,
     directories |-> ds, disk |-> d]

\* a faulty variant of ExecuteToolCall: the name is not looked up and the
\* arguments are not parsed; a call that has no tool or no parameters
\* comes to nothing
ExecuteUnchecked(toolCall, msgs, fs, ds, d) ==
    IF \/ toolCall.Function.Name \notin RegisteredTools
       \/ ~toolCall.Function.Arguments.valid
    THEN Outcome(<<>>, Nil, msgs, fs, ds, d)
    ELSE
    LET params == toolCall.Function.Arguments.obj IN
    CASE toolCall.Function.Name = "update_context" ->
           LET r == UpdateContextExecute(params, fs, ds)
           IN Outcome(r.result, r.err, msgs, r.files, r.directories, d)
      [] toolCall.Function.Name = "delete_message" ->
           LET r == MessageToolExecute(params, msgs)
           IN Outcome(r.result, r.err, r.Messages, fs, ds, d)
      [] toolCall.Function.Name = "edit_file" ->
           LET r == EditFileExecute(params, d)
           IN Outcome(r.result, r.err, msgs, fs, ds, r.disk)
      [] OTHER -> Outcome(<<>>, Nil, msgs, fs, ds, d)

ExecuteToolCall(toolCall, msgs, fs, ds, d) ==
    IF toolCall.Function.Name \notin RegisteredTools
    THEN Outcome(<<>>, <<"tool not found">>, msgs, fs, ds, d)
    ELSE IF ~toolCall.Function.Arguments.valid
    THEN Outcome(<<>>, Wrap("failed to parse tool arguments",
                            <<"invalid character">>), msgs, fs, ds, d)
    ELSE
    LET params == toolCall.Function.Arguments.obj IN
    CASE toolCall.Function.Name = "update_context" ->
           LET r == UpdateContextExecute(params, fs, ds)
           IN Outcome(r.result, r.err, msgs, r.files, r.directories, d)
      [] toolCall.Function.Name = "delete_message" ->
           LET r == MessageToolExecute(params, msgs)
           IN Outcome(r.result, r.err, r.Messages, fs, ds, d)
      [] toolCall.Function.Name = "edit_file" ->
           LET r == EditFileExecute(params, d)
           IN Outcome(r.result, r.err, msgs, fs, ds, r.disk)
      [] toolCall.Function.Name = "shell" ->
           LET r == ShellToolExecute(params, input, cancelled)
           IN Outcome(r.result, r.err, msgs, fs, ds, d)

(***************************************************************************)
(* config.go: the iteration count of the configuration.                    *)
(***************************************************************************)
LoadConfig(rawMaxIterations) ==
    [MaxIterations |-> IF rawMaxIterations = 0 THEN DefaultMaxIterations
                       ELSE rawMaxIterations]

(***************************************************************************)
(* agent.go: the system prompt.  Its files part is serialized from the     *)
(* disk; of its directories part the model keeps the tracked directories.  *)
(***************************************************************************)
\* a faulty variant of BuildSystemPrompt: the prompt of the last request
\* is kept
StaleSystemPrompt(fs, ds, d) ==
    IF RecentRequest # <<>> THEN RecentRequest[1].system_prompt
    ELSE [LIVE_CONTEXT_FILES |-> SerializeFiles(fs, d),
          LIVE_CONTEXT_DIRECTORIES |-> ListDirectories(ds)]

BuildSystemPrompt(fs, ds, d) ==
    [LIVE_CONTEXT_FILES |-> SerializeFiles(fs, d),
     LIVE_CONTEXT_DIRECTORIES |-> ListDirectories(ds)]

(***************************************************************************)
(* models/openai_service.go: the errors Request returns.                   *)
(***************************************************************************)
RequestCancelledError == Wrap("request cancelled", ContextCanceled)

StreamError == Wrap("stream error", <<"connection reset">>)

(***************************************************************************)
(* The backend of the model: the replies it may give.                      *)
(***************************************************************************)
ResponseTexts == {<<"done">>}

CallTemplates ==
    {[name |-> "nope", arguments |-> Args(<<>>)],
     [name |-> "update_context",
      arguments |-> Args([add_file |-> JStr("./a.go")])],
     [name |-> "update_context",
      arguments |-> Args([remove_file |-> JStr("README.md")])],
     [name |-> "edit_file",
      arguments |-> Args([file_path |-> JStr("README.md"),
                          old_string |-> JStr(<<"x">>),
                          new_string |-> JStr(<<"y">>)])],
     [name |-> "delete_message",
      arguments |-> Args([role |-> JStr("assistant"),
                          content_contains |-> JStr("")])]}

\* the lists of n templates
TemplateLists(n) == [1..n -> CallTemplates]

\* the calls a reply makes of a list of templates, ids from firstID on
CallsOf(templates, firstID) ==
    [i \in 1..Len(templates) |->
        ToolCall(firstID + i - 1, templates[i].name, templates[i].arguments)]

\* what ExternalEdit rewrites, and to what
EditedPaths == {"README.md"}

EditTexts == {StringsSplit(<<"y">>)}

UserInputs == {<<"hello">>}

(***************************************************************************)
(* unnamed/part_000: the merging of streamed tool-call fragments by id.    *)
(* A fragment whose ID is 0 carries no id.                                 *)
(***************************************************************************)
Chunk(id, name, arguments) ==
    [ID |-> id, Function |-> [Name |-> name, Arguments |-> arguments]]

\* a faulty variant of MergeChunk: a later fragment without a name is
\* dropped
MergeChunkNamedOnly(map, toolCallChunk) ==
    IF toolCallChunk.ID = 0 THEN map
    ELSE IF toolCallChunk.ID \in DOMAIN map
    THEN IF toolCallChunk.Function.Name = "" THEN map
         ELSE MapPut(map, toolCallChunk.ID,
                     Chunk(toolCallChunk.ID, toolCallChunk.Function.Name,
                           map[toolCallChunk.ID].Function.Arguments
                           \o toolCallChunk.Function.Arguments))
    ELSE MapPut(map, toolCallChunk.ID, toolCallChunk)

MergeChunk(map, toolCallChunk) ==
    IF toolCallChunk.ID = 0 THEN map
    ELSE IF toolCallChunk.ID \in DOMAIN map
    THEN LET existing == map[toolCallChunk.ID]
             name == IF toolCallChunk.Function.Name # ""
                     THEN toolCallChunk.Function.Name
                     ELSE existing.Function.Name
             arguments == IF toolCallChunk.Function.Arguments # <<>>
                          THEN existing.Function.Arguments
                               \o toolCallChunk.Function.Arguments
                          ELSE existing.Function.Arguments
         IN MapPut(map, toolCallChunk.ID,
                   Chunk(existing.ID, name, arguments))
    ELSE MapPut(map, toolCallChunk.ID,
                Chunk(toolCallChunk.ID, toolCallChunk.Function.Name,
                      toolCallChunk.Function.Arguments))

(***************************************************************************)
(* The initial state: the agent as main.go and NewAgentConfig leave it, in *)
(* a directory that holds README.md and a.go.                              *)
(***************************************************************************)
InitAgent ==
    /\ Messages = <<>>
    /\ disk = [p \in DiskPaths |-> File(StringsSplit(<<"x">>))]
    /\ files = AddFile(EmptyMap, "README.md", 1, <<>>).files
    /\ directories = AddDirectory(EmptyMap, ".", TRUE, <<>>).directories
    /\ config \in {LoadConfig(raw) : raw \in 0..MaxRawIterations}
    /\ RecentRequest = <<>>
    /\ RecentResponse = <<>>
    /\ pc = "idle"
    /\ iteration = 0
    /\ consecutiveFailures = 0
    /\ consolidatedToolCalls = <<>>
    /\ toolResults = <<>>
    /\ allToolsSucceeded = TRUE
    /\ ret = Nil
    /\ nextID = 1
    /\ inputs = 0
    /\ inProgress = FALSE
    /\ cancelled = FALSE
    /\ exited = FALSE

InitStream == chunks = <<>> /\ toolCallsMap = EmptyMap

InitFunc == input = <<>> /\ output = <<>>

Init == InitAgent /\ InitStream /\ InitFunc

(***************************************************************************)
(* agent.go, commands.go: the agent loop.  The loop stands at "idle"       *)
(* (not running), "streaming" (inside models.Request) or "dispatch"        *)
(* (inside the range over the consolidated calls).                         *)
(***************************************************************************)
\* a faulty variant of Return: the error is swallowed
ReturnNil(err) == pc' = "idle" /\ ret' = Nil /\ inProgress' = FALSE

\* return err, and the deferred reset of processWithToolLoop
Return(err) == pc' = "idle" /\ ret' = err /\ inProgress' = FALSE

\* the head of the for loop, entered with loop counter it
LoopHead(msgs, fs, ds, d, it) ==
    /\ iteration' = it
    /\ IF maxIterations = -1 \/ it < maxIterations
       THEN /\ Messages' = msgs
            /\ RecentRequest' = <<[messages |-> msgs,
                                   system_prompt |->
                                       BuildSystemPrompt(fs, ds, d)]>>
            /\ pc' = "streaming"
            /\ inProgress' = TRUE
            /\ UNCHANGED ret
       ELSE /\ Messages' = AddAgentMessage(
                               msgs, <<"Reached maximum tool call iterations">>)
            /\ Return(<<"reached maximum iterations">>)
            /\ UNCHANGED RecentRequest

\* the user enters a line: processWithToolLoop up to the first request
ProcessMessage(userInput) ==
    /\ pc = "idle"
    /\ ~exited
    /\ inputs < MaxInputs
    /\ inputs' = inputs + 1
    /\ cancelled' = FALSE
    /\ consecutiveFailures' = 0
    /\ LoopHead(AddUserMessage(Messages, userInput), files, directories, disk,
                0)
    /\ UNCHANGED <<files, directories, disk, config, RecentResponse,
                   consolidatedToolCalls, toolResults, allToolsSucceeded,
                   nextID, exited>>
    /\ UNCHANGED <<streamVars, funcVars>>

\* the loop from the return of models.Request to the first dispatch
HandleResponse(text, toolCalls, err) ==
    /\ RecentResponse' = <<[content |-> text, tool_calls |-> toolCalls,
                            error |-> err]>>
    /\ IF err # Nil
       THEN /\ IF err = ContextCanceled
               THEN Return(Nil)
               ELSE Return(Wrap("AI response error", err))
            /\ UNCHANGED <<Messages, consolidatedToolCalls, toolResults,
                           allToolsSucceeded>>
       ELSE IF Len(toolCalls) > 0
       THEN /\ consolidatedToolCalls' =
                   ConsolidateUpdateContextCalls(toolCalls)
            /\ Messages' = AddAgentMessageWithToolCalls(
                               Messages, text, consolidatedToolCalls')
            /\ toolResults' = <<>>
            /\ allToolsSucceeded' = TRUE
            /\ pc' = "dispatch"
            /\ UNCHANGED <<ret, inProgress>>
       ELSE /\ Messages' = AddAgentMessage(Messages, text)
            /\ Return(Nil)
            /\ UNCHANGED <<consolidatedToolCalls, toolResults,
                           allToolsSucceeded>>
    /\ UNCHANGED <<files, directories, disk, config, RecentRequest, iteration,
                   consecutiveFailures, inputs, cancelled, exited>>
    /\ UNCHANGED <<streamVars, funcVars>>

\* models.Request returns a reply
RequestReturns ==
    /\ pc = "streaming"
    /\ ~cancelled
    /\ \E text \in ResponseTexts, n \in 0..MaxCalls :
           /\ nextID + n - 1 <= MaxToolCalls
           /\ \E templates \in TemplateLists(n) :
                  /\ nextID' = nextID + n
                  /\ HandleResponse(text, CallsOf(templates, nextID), Nil)

\* the stream breaks
RequestFails ==
    /\ pc = "streaming"
    /\ ~cancelled
    /\ UNCHANGED nextID
    /\ HandleResponse(<<>>, <<>>, StreamError)

\* the context of the request was cancelled
RequestCancelled ==
    /\ pc = "streaming"
    /\ cancelled
    /\ UNCHANGED nextID
    /\ HandleResponse(<<>>, <<>>, RequestCancelledError)

\* a faulty variant of CurrentCall: the calls are taken last first
LastPendingCall ==
    consolidatedToolCalls[Len(consolidatedToolCalls) - Len(toolResults)]

\* the call the range over the consolidated calls stands at
CurrentCall == consolidatedToolCalls[Len(toolResults) + 1]

\* a faulty variant of CountDispatch: a success leaves the counter alone
CountFailuresOnly(n, failed) == IF failed THEN n + 1 ELSE n

\* consecutiveFailures after a dispatch: consecutiveFailures++ on an error,
\* consecutiveFailures = 0 otherwise
CountDispatch(n, failed) == IF failed THEN n + 1 ELSE 0

\* one pass of the range: the call is executed and its result recorded;
\* after the last call the results are appended and the loop goes round
Dispatch ==
    /\ pc = "dispatch"
    /\ LET toolCall == CurrentCall
           r == ExecuteToolCall(toolCall, Messages, files, directories, disk)
           failed == r.err # Nil
           failures == CountDispatch(consecutiveFailures, failed)
           results ==
               Append(toolResults,
                      IF failed
                      THEN ToolResult(toolCall.ID, toolCall.Function.Name,
                                      <<"Tool execution failed:">> \o r.err,
                                      TRUE)
                      ELSE ToolResult(toolCall.ID, toolCall.Function.Name,
                                      r.result, FALSE))
           succeeded == allToolsSucceeded /\ ~failed
       IN /\ files' = r.files
          /\ directories' = r.directories
          /\ disk' = r.disk
          /\ consecutiveFailures' = failures
          /\ toolResults' = results
          /\ allToolsSucceeded' = succeeded
          /\ IF failed /\ failures >= maxConsecutiveFailures
             THEN /\ Messages' = AddToolResultsMessage(r.Messages, results)
                  /\ Return(Wrap(
                         "tool execution failed after 3 consecutive attempts",
                         r.err))
                  /\ UNCHANGED <<iteration, RecentRequest>>
             ELSE IF Len(results) < Len(consolidatedToolCalls)
             THEN /\ Messages' = r.Messages
                  /\ UNCHANGED <<pc, ret, inProgress, iteration,
                                 RecentRequest>>
             ELSE LET withResults ==
                          AddToolResultsMessage(r.Messages, results)
                      msgs ==
                          IF ~succeeded
                          THEN AddUserMessage(
                                   withResults,
                                   <<"Please fix the error and try again.">>)
                          ELSE withResults
                  IN LoopHead(msgs, r.files, r.directories, r.disk,
                              iteration + 1)
    /\ UNCHANGED <<config, RecentResponse, consolidatedToolCalls, nextID,
                   inputs, cancelled, exited>>
    /\ UNCHANGED <<streamVars, funcVars>>

\* Ctrl+C: the signal goroutine cancels the request in progress, or exits
Interrupt ==
    /\ ~exited
    /\ IF inProgress
       THEN cancelled' = TRUE /\ UNCHANGED exited
       ELSE exited' = TRUE /\ UNCHANGED cancelled
    /\ UNCHANGED <<Messages, files, directories, disk, config, RecentRequest,
                   RecentResponse, pc, iteration, consecutiveFailures,
                   consolidatedToolCalls, toolResults, allToolsSucceeded, ret,
                   nextID, inputs, inProgress>>
    /\ UNCHANGED <<streamVars, funcVars>>

\* a file is rewritten on disk by someone else
ExternalEdit(p, text) ==
    /\ ~exited
    /\ disk[p] # File(text)
    /\ disk' = [disk EXCEPT ![p] = File(text)]
    /\ UNCHANGED <<Messages, files, directories, config, RecentRequest,
                   RecentResponse, pc, iteration, consecutiveFailures,
                   consolidatedToolCalls, toolResults, allToolsSucceeded, ret,
                   nextID, inputs, inProgress, cancelled, exited>>
    /\ UNCHANGED <<streamVars, funcVars>>

Next ==
    \/ \E userInput \in UserInputs : ProcessMessage(userInput)
    \/ RequestReturns
    \/ RequestFails
    \/ RequestCancelled
    \/ Dispatch
    \/ Interrupt
    \/ \E p \in EditedPaths, text \in EditTexts : ExternalEdit(p, text)

Spec == Init /\ [][Next]_vars

(***************************************************************************)
(* ConsolidateUpdateContextCalls as a function: it is applied to every     *)
(* list of at most MaxList calls, the i-th call of a list carrying id i.   *)
(***************************************************************************)
ConsolidateTemplates ==
    {[name |-> "update_context",
      arguments |-> Args([add_file |-> JStr("a.go")])],
     [name |-> "update_context",
      arguments |-> Args([add_file |-> JObj([path |-> "README.md",
                                             start_line |-> 2])])],
     [name |-> "update_context",
      arguments |-> Args([remove_file |-> JStr("a.go"),
                          note |-> JStr("z")])],
     [name |-> "update_context",
      arguments |-> Args([add_directory |-> JStr("src"),
                          remove_directory |-> JStr(".")])],
     [name |-> "update_context", arguments |-> BadArgs],
     [name |-> "shell", arguments |-> Args([command |-> JStr("ls")])],
     [name |-> "nope", arguments |-> Args(<<>>)]}

ConsolidateInputs ==
    UNION {{CallsOf(t, 1) : t \in [1..n -> ConsolidateTemplates]} :
               n \in 0..MaxList}

InitConsolidate ==
    /\ InitAgent
    /\ InitStream
    /\ input \in ConsolidateInputs
    /\ output = <<>>

Consolidate ==
    /\ output = <<>>
    /\ output' = <<ConsolidateUpdateContextCalls(input)>>
    /\ UNCHANGED <<input, agentVars, streamVars>>

NextConsolidate == Consolidate

SpecConsolidate == InitConsolidate /\ [][NextConsolidate]_vars

(***************************************************************************)
(* The merging loop over a stream of tool-call fragments.                  *)
(***************************************************************************)
ChunkIDs == 0..2

ChunkNames == {"", "f", "g"}

ChunkArguments == {<<>>, <<"x">>, <<"y">>}

StreamChunk(toolCallChunk) ==
    /\ Len(chunks) < MaxFrags
    /\ chunks' = Append(chunks, toolCallChunk)
    /\ toolCallsMap' = MergeChunk(toolCallsMap, toolCallChunk)
    /\ UNCHANGED <<agentVars, funcVars>>

NextStream ==
    \E id \in ChunkIDs, name \in ChunkNames, arguments \in ChunkArguments :
        StreamChunk(Chunk(id, name, arguments))

SpecStream == Init /\ [][NextStream]_vars

(***************************************************************************)
(* Properties of the agent loop, checked under Spec.                       *)
(***************************************************************************)
\* the run of the loop has returned
Returned == pc = "idle" /\ inputs > 0

BudgetError(err) ==
    err # Nil /\ err[1] = "tool execution failed after 3 consecutive attempts"

HasResult(msgs, id) ==
    \E j \in 1..Len(msgs) : msgs[j].Role = "tool" /\ msgs[j].ToolUseID = id

NoOrphanedToolCall(msgs) ==
    \A i \in 1..Len(msgs) :
        msgs[i].Role = "assistant" =>
            \A k \in 1..Len(msgs[i].ToolCalls) :
                HasResult(msgs, msgs[i].ToolCalls[k].ID)

\* C1: when the loop has ended on the failure budget, the failure counter
\* stands at the threshold and every tool call attached to an assistant
\* message of the log has a tool-result message carrying its id.
C1_NoOrphanAfterBudget ==
    (Returned /\ BudgetError(ret)) =>
        /\ consecutiveFailures = maxConsecutiveFailures
        /\ NoOrphanedToolCall(Messages)

\* message i is the latest assistant message before message j
LatestAssistantBefore(msgs, i, j) ==
    /\ i < j
    /\ msgs[i].Role = "assistant"
    /\ \A m \in (i + 1)..(j - 1) : msgs[m].Role # "assistant"

\* C2: every tool-result message of the log carries the id of a tool call
\* attached to the latest assistant message before it.
C2_ResultFollowsItsCall ==
    \A j \in 1..Len(Messages) :
        Messages[j].Role = "tool" =>
            \E i \in 1..Len(Messages) :
                /\ LatestAssistantBefore(Messages, i, j)
                /\ \E k \in 1..Len(Messages[i].ToolCalls) :
                       Messages[i].ToolCalls[k].ID = Messages[j].ToolUseID

\* models.Request returns in this step
RequestReturned == pc = "streaming" /\ pc' # "streaming"

\* C3: when the backend's reply holds no tool call, the loop appends one
\* assistant message without tool calls holding the reply's text, dispatches
\* nothing (the store, the disk and the gathered results stay as they are)
\* and returns nil.
C3_ZeroCallsEndTheTurn ==
    [][(/\ RequestReturned
        /\ RecentResponse'[1].error = Nil
        /\ RecentResponse'[1].tool_calls = <<>>)
       => /\ Messages' = Append(Messages,
                                [Role |-> "assistant",
                                 Content |-> RecentResponse'[1].content,
                                 ToolName |-> "", ToolUseID |-> 0,
                                 ToolCalls |-> <<>>])
          /\ pc' = "idle"
          /\ ret' = Nil
          /\ UNCHANGED <<files, directories, disk, toolResults,
                         consecutiveFailures>>]_vars

C3_Witness ==
    /\ Returned
    /\ ret = Nil
    /\ iteration >= 1
    /\ RecentResponse # <<>>
    /\ RecentResponse[1].error = Nil
    /\ RecentResponse[1].tool_calls = <<>>
    /\ Messages[Len(Messages)].Role = "assistant"
    /\ Messages[Len(Messages)].ToolCalls = <<>>

\* the reply holds tool calls: they are consolidated and attached to the
\* assistant message appended, and nothing is dispatched in that step
C4_Attach ==
    (pc = "streaming" /\ pc' = "dispatch") =>
        /\ consolidatedToolCalls' =
               ConsolidateUpdateContextCalls(RecentResponse'[1].tool_calls)
        /\ Messages' = Append(Messages,
                              [Role |-> "assistant",
                               Content |-> RecentResponse'[1].content,
                               ToolName |-> "", ToolUseID |-> 0,
                               ToolCalls |-> consolidatedToolCalls'])
        /\ toolResults' = <<>>
        /\ UNCHANGED <<files, directories, disk>>

\* a step of the dispatch executes the next call of the list and no other
C4_InOrder ==
    (pc = "dispatch" /\ toolResults' # toolResults) =>
        LET n == Len(toolResults) IN
        /\ Len(toolResults') = n + 1
        /\ SubSeq(toolResults', 1, n) = toolResults
        /\ toolResults'[n + 1].ID = consolidatedToolCalls[n + 1].ID
        /\ toolResults'[n + 1].Name = consolidatedToolCalls[n + 1].Function.Name
        /\ consolidatedToolCalls' = consolidatedToolCalls

\* the dispatch ends in a new request: the log ends with one tool-result
\* message per consolidated call, in the order of the calls (and then the
\* request to fix an error, if a call failed), and the request carries it
C4_Finish ==
    (pc = "dispatch" /\ pc' = "streaming") =>
        LET n == Len(consolidatedToolCalls)
            fix == IF allToolsSucceeded' THEN 0 ELSE 1
            last == Len(Messages') - fix
        IN /\ last >= n
           /\ \A i \in 1..n :
                  /\ Messages'[last - n + i].Role = "tool"
                  /\ Messages'[last - n + i].ToolUseID =
                         consolidatedToolCalls[i].ID
                  /\ Messages'[last - n + i].Content = toolResults'[i].Content
           /\ fix = 1 => Messages'[Len(Messages')].Role = "user"
           /\ RecentRequest'[1].messages = Messages'
           /\ iteration' = iteration + 1

\* C4, as stated: tool calls of a reply are consolidated, attached to the
\* assistant message before any dispatch, dispatched one at a time in list
\* order, answered by one tool-result message each in the same order, and
\* followed by another request.
C4_AlwaysAnotherRequest ==
    [][/\ C4_Attach
       /\ C4_InOrder
       /\ C4_Finish
       /\ (pc = "dispatch" /\ pc' # "dispatch") => pc' = "streaming"]_vars

\* C4, amended: the same, provided the consecutive-failure budget is not
\* exhausted during the dispatch of the calls.
C4_AnotherRequestWithinBudget ==
    [][/\ C4_Attach
       /\ C4_InOrder
       /\ C4_Finish
       /\ (/\ pc = "dispatch"
           /\ pc' # "dispatch"
           /\ consecutiveFailures' < maxConsecutiveFailures)
          => pc' = "streaming"]_vars

C4_Witness ==
    /\ pc = "streaming"
    /\ iteration >= 1
    /\ Len(consolidatedToolCalls) >= 2
    /\ Len(toolResults) = Len(consolidatedToolCalls)
    /\ Len(RecentResponse[1].tool_calls) > Len(consolidatedToolCalls)
    /\ ~allToolsSucceeded
    /\ Messages[Len(Messages) - 1].Role = "tool"
    /\ Messages[Len(Messages) - 1].ToolUseID =
           consolidatedToolCalls[Len(consolidatedToolCalls)].ID

\* C8: a request ended by the cancellation of its context makes the loop
\* return nil.
C8_CancellationIsSilent ==
    (/\ Returned
     /\ RecentResponse # <<>>
     /\ ErrorsIs(RecentResponse[1].error, ContextCanceled))
    => ret = Nil

\* C9: the loop sends at most config.MaxIterations requests for one user
\* input (the request in flight is the one numbered iteration + 1).
C9_RequestsWithinConfiguredLimit ==
    pc = "streaming" => iteration + 1 <= config.MaxIterations

\* the text of a serialized file
ShownText(section) == [i \in 1..Len(section.body.lines) |->
                          section.body.lines[i].text]

\* C10: the prompt of every request shows each file tracked in whole with
\* the lines the disk holds when the request is sent.
C10_PromptShowsTheDisk ==
    [][(pc # "streaming" /\ pc' = "streaming") =>
          \A p \in DOMAIN files' :
              (/\ files'[p].StartLine = 1
               /\ files'[p].EndLine = <<>>
               /\ disk'[Canon(p)].exists)
              => LET sections ==
                         RecentRequest'[1].system_prompt.LIVE_CONTEXT_FILES
                 IN /\ p \in DOMAIN sections
                    /\ sections[p].body.err = Nil
                    /\ ShownText(sections[p]) = disk'[Canon(p)].lines]_vars

\* a second request of a turn, sent after edit_file has rewritten the
\* tracked README.md, shows the new text
C10_Witness ==
    /\ pc = "streaming"
    /\ iteration >= 1
    /\ \E j \in 1..Len(Messages) :
           /\ Messages[j].Role = "tool"
           /\ Messages[j].ToolName = "edit_file"
           /\ Messages[j].Content = <<"Ok">>
    /\ "README.md" \in DOMAIN files
    /\ ShownText(RecentRequest[1].system_prompt.LIVE_CONTEXT_FILES["README.md"])
           = StringsSplit(<<"y">>)

(***************************************************************************)
(* Properties of ConsolidateUpdateContextCalls, checked under              *)
(* SpecConsolidate.                                                        *)
(***************************************************************************)
UpdateContextCallsOf(calls) == SelectSeq(calls, IsUpdateContext)

\* C5: of a list with more than one update_context call the result holds
\* exactly one, and it carries the id of the first update_context call of
\* the list.
C5_OneMergedCallUnderFirstID ==
    (output # <<>> /\ Len(UpdateContextCallsOf(input)) > 1) =>
        /\ Len(UpdateContextCallsOf(output[1])) = 1
        /\ UpdateContextCallsOf(output[1])[1].ID =
               UpdateContextCallsOf(input)[1].ID

C5_Witness ==
    /\ output # <<>>
    /\ Len(UpdateContextCallsOf(input)) = 2
    /\ Len(input) = 3
    /\ ~IsUpdateContext(input[1])
    /\ Len(output[1]) = 2

\* C6: a list with fewer than two update_context calls is returned as it
\* is, and no step of the consolidation changes the message log or the
\* Live Context store.
C6_FewerThanTwoPassThrough ==
    /\ [](output # <<>> /\ Len(UpdateContextCallsOf(input)) < 2
          => output[1] = input)
    /\ [][UNCHANGED <<Messages, files, directories>>]_vars

C6_Witness ==
    /\ output # <<>>
    /\ Len(UpdateContextCallsOf(input)) = 1
    /\ Len(input) = 3
    /\ output[1] = input

(***************************************************************************)
(* Properties of the fragment merging, checked under SpecStream.           *)
(***************************************************************************)
FragmentsOf(id) == SelectSeq(chunks, LAMBDA c : c.ID = id)

RECURSIVE ConcatArguments(_)
ConcatArguments(fragments) ==
    IF fragments = <<>> THEN <<>>
    ELSE Head(fragments).Function.Arguments \o ConcatArguments(Tail(fragments))

RECURSIVE LastName(_)
LastName(fragments) ==
    IF fragments = <<>> THEN ""
    ELSE IF fragments[Len(fragments)].Function.Name # ""
    THEN fragments[Len(fragments)].Function.Name
    ELSE LastName(SubSeq(fragments, 1, Len(fragments) - 1))

\* C7: for every id carried by a fragment received, the map holds one tool
\* call under that id; its arguments are the argument texts of the id's
\* fragments concatenated in arrival order and its name is the last
\* non-empty name among them.  An id no fragment carried has no entry.
C7_FragmentsMergeInOrder ==
    /\ DOMAIN toolCallsMap \subseteq ChunkIDs \ {0}
    /\ \A id \in ChunkIDs \ {0} :
           IF FragmentsOf(id) = <<>> THEN id \notin DOMAIN toolCallsMap
           ELSE /\ id \in DOMAIN toolCallsMap
                /\ toolCallsMap[id].ID = id
                /\ toolCallsMap[id].Function.Arguments =
                       ConcatArguments(FragmentsOf(id))
                /\ toolCallsMap[id].Function.Name = LastName(FragmentsOf(id))

C7_Witness ==
    /\ Len(chunks) = 3
    /\ Len(FragmentsOf(1)) = 3
    /\ chunks[1].Function.Name = "f"
    /\ chunks[2].Function.Name = ""
    /\ chunks[2].Function.Arguments = <<"y">>
    /\ chunks[3].Function.Name = ""
    /\ toolCallsMap[1].Function.Arguments = <<"x", "y", "x">>

(***************************************************************************)
(* The operations of the message log, applied in any order to a log of at  *)
(* most MaxLog messages.  output holds the records of the last two         *)
(* operations, the latest first.                                           *)
(***************************************************************************)
LogRoles == {"user", "assistant", "tool"}

LogTexts == {<<"a">>, <<"a", "b">>}

LogPatterns == {"", "a", "b"}

\* everything but the log and the records
logFrame == <<files, directories, disk, config, RecentRequest,
              RecentResponse, pc, iteration, consecutiveFailures,
              consolidatedToolCalls, toolResults, allToolsSucceeded, ret,
              nextID, inputs, inProgress, cancelled, exited, chunks,
              toolCallsMap, input>>

\* the messages of the log an operation on (role, contentContains) matches
Matches(msgs, role, contentContains) ==
    {i \in 1..Len(msgs) : MatchesMessage(msgs[i], role, contentContains)}

LogRecord(op, role, contentContains, result, err) ==
    [op |-> op, role |-> role, contentContains |-> contentContains,
     result |-> result, err |-> err,
     matches |-> Cardinality(Matches(Messages, role, contentContains))]

Record(rec) ==
    output' = IF output = <<>> THEN <<rec>> ELSE <<rec, output[1]>>

LogAddUser ==
    /\ Len(Messages) < MaxLog
    /\ \E text \in LogTexts :
           /\ Messages' = AddUserMessage(Messages, text)
           /\ Record(LogRecord("add", "user", "", <<>>, Nil))
    /\ UNCHANGED logFrame

LogAddAgent ==
    /\ Len(Messages) < MaxLog
    /\ \E text \in LogTexts :
           /\ Messages' = AddAgentMessage(Messages, text)
           /\ Record(LogRecord("add", "assistant", "", <<>>, Nil))
    /\ UNCHANGED logFrame

LogAddToolResults ==
    /\ Len(Messages) < MaxLog
    /\ \E text \in LogTexts :
           /\ Messages' = AddToolResultsMessage(
                              Messages, <<ToolResult(1, "shell", text, FALSE)>>)
           /\ Record(LogRecord("add", "tool", "", <<>>, Nil))
    /\ UNCHANGED logFrame

\* the delete_message tool is executed
LogDelete ==
    /\ \E role \in LogRoles, contentContains \in LogPatterns :
           LET r == MessageToolExecute(
                        [role |-> JStr(role),
                         content_contains |-> JStr(contentContains)],
                        Messages)
           IN /\ Messages' = r.Messages
              /\ Record(LogRecord("delete", role, contentContains, r.result,
                                  r.err))
    /\ UNCHANGED logFrame

\* the current directory and, when it is on the disk, README.md are tracked
InitializeDefaultContext(fs, ds, d) ==
    [directories |-> AddDirectory(ds, ".", TRUE, <<>>).directories,
     files |-> IF d["README.md"].exists
               THEN AddFile(fs, "README.md", 1, <<>>).files
               ELSE fs]

\* the /clear command
LogClear ==
    /\ Messages # <<>>
    /\ Messages' = ClearHistory(Messages)
    /\ LET c == InitializeDefaultContext(files, directories, disk)
       IN files' = c.files /\ directories' = c.directories
    /\ Record(LogRecord("clear", "", "", <<>>, Nil))
    /\ UNCHANGED <<disk, config, RecentRequest, RecentResponse, pc, iteration,
                   consecutiveFailures, consolidatedToolCalls, toolResults,
                   allToolsSucceeded, ret, nextID, inputs, inProgress,
                   cancelled, exited, chunks, toolCallsMap, input>>

NextLog ==
    \/ LogAddUser
    \/ LogAddAgent
    \/ LogAddToolResults
    \/ LogDelete
    \/ LogClear

SpecLog == Init /\ [][NextLog]_vars

(***************************************************************************)
(* Properties of the message log, checked under SpecLog.                   *)
(***************************************************************************)
\* the step is a delete
DeleteStep == output' # <<>> /\ output'[1].op = "delete"

NotFound(rec) == rec.result = <<"Message not found">>

\* C11: a delete changes exactly one message: the first message that
\* matches stays where it is, marked, every other message keeps its content
\* and its position; without a match the log stays as it is and the result
\* is "Message not found".
C11_DeleteAffectsOneMessage ==
    [][DeleteStep =>
         LET hits == Matches(Messages, output'[1].role,
                             output'[1].contentContains)
         IN IF hits = {}
            THEN Messages' = Messages /\ NotFound(output'[1])
            ELSE /\ ~NotFound(output'[1])
                 /\ Len(Messages') = Len(Messages)
                 /\ \A j \in 1..Len(Messages) :
                        (\E i \in hits : i < j) \/ j \notin hits
                            => /\ Messages'[j].Role = Messages[j].Role
                               /\ Messages'[j].Content = Messages[j].Content
      ]_vars

\* the last two operations were deletes of the same role and text and the
\* first of them found a message
TwoDeletes ==
    /\ Len(output) = 2
    /\ output[1].op = "delete"
    /\ output[2].op = "delete"
    /\ output[1].role = output[2].role
    /\ output[1].contentContains = output[2].contentContains
    /\ ~NotFound(output[2])

\* C12, as stated: after a delete that found a message, the same delete
\* again finds none.
C12_SecondDeleteFindsNone == TwoDeletes => NotFound(output[1])

\* C12, amended: after a delete that found the only message matching, the
\* same delete again finds none.
C12_SecondDeleteFindsNoneAfterOnlyMatch ==
    (TwoDeletes /\ output[2].matches = 1) => NotFound(output[1])

C12_Witness ==
    /\ TwoDeletes
    /\ output[2].matches = 1
    /\ NotFound(output[1])
    /\ Len(Messages) = 2

\* C13: no step shortens the log.
C13_LogNeverShrinks == [][Len(Messages') >= Len(Messages)]_vars

(***************************************************************************)
(* The operations of the Live Context store, applied in any order to the   *)
(* spellings of the paths.  output holds the record of the last operation. *)
(***************************************************************************)
DirSpellings == {".", "src", "./src"}

\* the directory a spelling names
CanonDir(p) == IF p = "./src" THEN "src" ELSE p

StartLines == {0, 2}

EndLines == {<<>>, <<3>>}

\* the options a directory is added with
DirOptions ==
    {[ignoreGitignore |-> TRUE, ignorePatterns |-> <<>>],
     [ignoreGitignore |-> FALSE, ignorePatterns |-> <<"*.log">>]}

\* everything but the store and the record
storeFrame == <<Messages, disk, config, RecentRequest, RecentResponse, pc,
                iteration, consecutiveFailures, consolidatedToolCalls,
                toolResults, allToolsSucceeded, ret, nextID, inputs,
                inProgress, cancelled, exited, chunks, toolCallsMap, input>>

StoreRecord(op, path, args, tracked, err) ==
    [op |-> op, path |-> path, args |-> args, tracked |-> tracked,
     err |-> err]

StoreAddFile ==
    /\ \E filePath \in PathSpellings \cup {""}, startLine \in StartLines,
          endLine \in EndLines :
           LET r == AddFile(files, filePath, startLine, endLine)
           IN /\ files' = r.files
              /\ output' = <<StoreRecord("AddFile", filePath,
                                         [startLine |-> startLine,
                                          endLine |-> endLine],
                                         filePath \in DOMAIN files, r.err)>>
    /\ UNCHANGED directories
    /\ UNCHANGED storeFrame

StoreRemoveFile ==
    /\ \E filePath \in PathSpellings :
           LET r == RemoveFile(files, filePath)
           IN /\ files' = r.files
              /\ output' = <<StoreRecord("RemoveFile", filePath, <<>>,
                                         filePath \in DOMAIN files, r.err)>>
    /\ UNCHANGED directories
    /\ UNCHANGED storeFrame

StoreAddDirectory ==
    /\ \E dirPath \in DirSpellings \cup {""}, o \in DirOptions :
           LET r == AddDirectory(directories, dirPath, o.ignoreGitignore,
                                 o.ignorePatterns)
           IN /\ directories' = r.directories
              /\ output' = <<StoreRecord("AddDirectory", dirPath, o,
                                         dirPath \in DOMAIN directories,
                                         r.err)>>
    /\ UNCHANGED files
    /\ UNCHANGED storeFrame

StoreRemoveDirectory ==
    /\ \E dirPath \in DirSpellings :
           LET r == RemoveDirectory(directories, dirPath)
           IN /\ directories' = r.directories
              /\ output' = <<StoreRecord("RemoveDirectory", dirPath, <<>>,
                                         dirPath \in DOMAIN directories,
                                         r.err)>>
    /\ UNCHANGED files
    /\ UNCHANGED storeFrame

NextStore ==
    \/ StoreAddFile
    \/ StoreRemoveFile
    \/ StoreAddDirectory
    \/ StoreRemoveDirectory

SpecStore == Init /\ [][NextStore]_vars

(***************************************************************************)
(* Properties of the Live Context store, checked under SpecStore.          *)
(***************************************************************************)
\* the step is the store operation op, and it returned no error
StoreStep(op) ==
    /\ output' # <<>>
    /\ output'[1].op = op
    /\ output'[1].err = Nil

\* the entries of the map m other than the one of key k are those of m2
OthersKept(m, m2, k) ==
    /\ DOMAIN m2 \ {k} = DOMAIN m \ {k}
    /\ \A q \in DOMAIN m \ {k} : m2[q] = m[q]

\* C14: an add is an upsert: afterwards the path has one entry, with the
\* range or options just given, every other entry is as before, and when
\* the path was already tracked the number of entries has not changed.
C14_AddIsUpsert ==
    [][/\ StoreStep("AddFile") =>
            LET k == output'[1].path IN
            /\ k \in DOMAIN files'
            /\ files'[k].Path = k
            /\ files'[k].StartLine = IF output'[1].args.startLine <= 0 THEN 1
                                     ELSE output'[1].args.startLine
            /\ files'[k].EndLine = output'[1].args.endLine
            /\ OthersKept(files, files', k)
            /\ k \in DOMAIN files
                   => Cardinality(DOMAIN files') = Cardinality(DOMAIN files)
       /\ StoreStep("AddDirectory") =>
            LET k == output'[1].path IN
            /\ k \in DOMAIN directories'
            /\ directories'[k].Path = k
            /\ directories'[k].IgnoreGitignore
                   = output'[1].args.ignoreGitignore
            /\ directories'[k].IgnorePatterns
                   = output'[1].args.ignorePatterns
            /\ OthersKept(directories, directories', k)
            /\ k \in DOMAIN directories
                   => Cardinality(DOMAIN directories')
                          = Cardinality(DOMAIN directories)
      ]_vars

\* a tracked file has just been added again with another range, next to
\* another tracked file
C14_Witness ==
    /\ output # <<>>
    /\ output[1].op = "AddFile"
    /\ output[1].tracked
    /\ output[1].path = "README.md"
    /\ files["README.md"].StartLine = 2
    /\ Cardinality(DOMAIN files) = 2

\* C15: the entries are keyed by the file or directory a path names: no two
\* entries name the same one.
C15_OneEntryPerFile ==
    /\ \A p, q \in DOMAIN files : Canon(p) = Canon(q) => p = q
    /\ \A p, q \in DOMAIN directories : CanonDir(p) = CanonDir(q) => p = q

\* C16: a remove of an untracked path returns the not-found error and
\* leaves both maps as they are; a remove of a tracked path removes that
\* entry and no other.
C16_RemoveIsExact ==
    [][/\ (output' # <<>> /\ output'[1].op = "RemoveFile") =>
            LET k == output'[1].path IN
            /\ directories' = directories
            /\ IF k \in DOMAIN files
               THEN /\ output'[1].err = Nil
                    /\ k \notin DOMAIN files'
                    /\ OthersKept(files, files', k)
               ELSE /\ output'[1].err = <<"file not found in live context">>
                    /\ files' = files
       /\ (output' # <<>> /\ output'[1].op = "RemoveDirectory") =>
            LET k == output'[1].path IN
            /\ files' = files
            /\ IF k \in DOMAIN directories
               THEN /\ output'[1].err = Nil
                    /\ k \notin DOMAIN directories'
                    /\ OthersKept(directories, directories', k)
               ELSE /\ output'[1].err
                           = <<"directory not found in live context">>
                    /\ directories' = directories
      ]_vars

\* a tracked file has just been removed and another is still tracked
C16_Witness ==
    /\ output # <<>>
    /\ output[1].op = "RemoveFile"
    /\ output[1].tracked
    /\ output[1].err = Nil
    /\ output[1].path \notin DOMAIN files
    /\ DOMAIN files # {}

\* an untracked directory has just been refused
C16_WitnessNotFound ==
    /\ output # <<>>
    /\ output[1].op = "RemoveDirectory"
    /\ ~output[1].tracked
    /\ output[1].err # Nil
    /\ DOMAIN directories # {}

(***************************************************************************)
(* live_context.go: generateDirectoryTree, the listing of a tracked        *)
(* directory.  A directory tree on disk is given by the number of files    *)
(* of the root, the number of its hidden entries, the number of files of   *)
(* each of its subdirectories, and whether the first subdirectory holds a  *)
(* directory of its own with one file.  A path is the sequence of the      *)
(* directory numbers from the root.                                        *)
(***************************************************************************)
RootFileCounts == {0, 1} \cup ((maxItems - 3)..(maxItems + 1))

TreeShapes ==
    {[rootFiles |-> n, hidden |-> h, subs |-> subs, nested |-> nested] :
        n \in RootFileCounts, h \in 0..1,
        subs \in UNION {[1..k -> 0..MaxSubFiles] : k \in 0..MaxSubDirs},
        nested \in BOOLEAN}

Entry(path, kind, name) == [path |-> path, kind |-> kind, name |-> name]

\* os.ReadDir(path): the entries of the directory, before the filters
ReadDir(t, path) ==
    LET nDirs == CASE path = <<>> -> Len(t.subs)
                  [] path = <<1>> /\ t.nested -> 1
                  [] OTHER -> 0
        nFiles == CASE path = <<>> -> t.rootFiles
                   [] Len(path) = 1 -> t.subs[path[1]]
                   [] OTHER -> 1
        nHidden == IF path = <<>> THEN t.hidden ELSE 0
    IN [i \in 1..nHidden |-> Entry(path, "hidden", i)]
       \o [i \in 1..nDirs |-> Entry(path, "dir", i)]
       \o [i \in 1..nFiles |-> Entry(path, "file", i)]

\* the entries the filters let through, directories first, then files
AllEntries(t, path) ==
    LET entries == ReadDir(t, path)
        IsDir(e) == e.kind = "dir"
        IsFile(e) == e.kind = "file"
    IN SelectSeq(entries, IsDir) \o SelectSeq(entries, IsFile)

QueueItem(path, depth) == [path |-> path, depth |-> depth]

\* the breadth-first loop, from the state it stands in
RECURSIVE Traverse(_, _, _, _)
Traverse(t, queue, results, truncatedDirs) ==
    IF ~(Len(queue) > 0 /\ Len(results) < maxItems)
    THEN [results |-> results, truncatedDirs |-> truncatedDirs]
    ELSE
    LET current == Head(queue) IN
    IF current.depth > maxDepth
    THEN Traverse(t, Tail(queue), results, truncatedDirs)
    ELSE
    LET allEntries == AllEntries(t, current.path)
        room == maxItems - Len(results)
        itemsAdded == IF Len(allEntries) < room THEN Len(allEntries)
                      ELSE room
        added == SubSeq(allEntries, 1, itemsAdded)
        IsDir(e) == e.kind = "dir"
        queued == [i \in 1..Len(SelectSeq(added, IsDir)) |->
                      QueueItem(Append(current.path,
                                       SelectSeq(added, IsDir)[i].name),
                                current.depth + 1)]
    IN Traverse(t, Tail(queue) \o queued, results \o added,
                IF itemsAdded < Len(allEntries)
                THEN truncatedDirs \cup {current.path}
                ELSE truncatedDirs)

\* the "./..." line
TruncationIndicator == Entry(<<>>, "...", 0)

\* the lines of the listing: the entries, then one indicator for every
\* directory marked truncated
generateDirectoryTree(t) ==
    LET r == Traverse(t, <<QueueItem(<<>>, 0)>>, <<>>, {})
    IN r.results
       \o [i \in 1..Cardinality(r.truncatedDirs) |-> TruncationIndicator]

InitTree ==
    /\ InitAgent
    /\ InitStream
    /\ input \in TreeShapes
    /\ output = <<>>

GenerateTree ==
    /\ output = <<>>
    /\ output' = <<generateDirectoryTree(input)>>
    /\ UNCHANGED <<input, agentVars, streamVars>>

NextTree == GenerateTree

SpecTree == InitTree /\ [][NextTree]_vars

(***************************************************************************)
(* Properties of the directory listing, checked under SpecTree.            *)
(***************************************************************************)
\* the number of entries the listing of the tree below path could show
RECURSIVE Listable(_, _)
Listable(t, path) ==
    LET allEntries == AllEntries(t, path)
        below(i) == IF allEntries[i].kind = "dir"
                    THEN Listable(t, Append(path, allEntries[i].name))
                    ELSE 0
        RECURSIVE Sum(_)
        Sum(i) == IF i = 0 THEN 0 ELSE below(i) + Sum(i - 1)
    IN Len(allEntries) + Sum(Len(allEntries))

IsIndicator(line) == line.kind = "..."

IsListed(line) == line.kind # "..."

\* C17: the listing of a tree with more than maxItems listable entries
\* shows at most maxItems of them and at least one truncation indicator.
C17_CutListingIsMarked ==
    (output # <<>> /\ Listable(input, <<>>) > maxItems)
        => /\ Len(SelectSeq(output[1], IsListed)) <= maxItems
           /\ Len(SelectSeq(output[1], IsIndicator)) >= 1

\* C17, the part that holds: the listing never shows more than maxItems
\* entries, and a tree cut inside a directory carries the indicator.
C17_CutInsideADirectoryIsMarked ==
    output # <<>>
        => /\ Len(SelectSeq(output[1], IsListed)) <= maxItems
           /\ Len(AllEntries(input, <<>>)) > maxItems
                  => Len(SelectSeq(output[1], IsIndicator)) >= 1

C17_WitnessMarked ==
    /\ output # <<>>
    /\ Len(AllEntries(input, <<>>)) > maxItems
    /\ Len(SelectSeq(output[1], IsIndicator)) = 1

(***************************************************************************)
(* tools/file_tools.go: create_file and edit_file.  A tool gives its       *)
(* message for the agent, the error it returns and the disk it leaves.     *)
(* The directory of the path can be made and the file can be written.      *)
(***************************************************************************)
\* WrapToolError(toolName, fmt.Errorf(msg))
WrapToolError(toolName, msg) == <<toolName, msg>>

createFile(params, d) ==
    IF ~IsString(params, "path")
    THEN ToolFailure("path must be a string", d)
    ELSE IF ~IsString(params, "content")
    THEN ToolFailure("content must be a string", d)
    ELSE
    LET absPath == validateAndResolvePath(params["path"].s)
        content == params["content"].s
        isUpdate == absPath \in DOMAIN d /\ d[absPath].exists
    IN [result |-> IF isUpdate THEN <<"Updated">> ELSE <<"Created">>,
        err |-> Nil,
        disk |-> MapPut(d, absPath, File(StringsSplit(content)))]

editFile(params, d) ==
    IF ~IsString(params, "path")
    THEN ToolFailure("path must be a string", d)
    ELSE IF ~IsString(params, "old_str")
    THEN ToolFailure("old_str must be a string", d)
    ELSE IF ~IsString(params, "new_str")
    THEN ToolFailure("new_str must be a string", d)
    ELSE
    LET absPath == validateAndResolvePath(params["path"].s)
        oldStr == params["old_str"].s
        newStr == params["new_str"].s
    IN
    IF absPath \notin DOMAIN d \/ ~d[absPath].exists
    THEN [result |-> <<>>,
          err |-> WrapToolError("edit_file", "failed to read file"),
          disk |-> d]
    ELSE
    LET oldContent == ReadFile(d[absPath]) IN
    IF ~Contains(oldContent, oldStr)
    THEN [result |-> <<>>,
          err |-> WrapToolError("edit_file", "old_str not found in file"),
          disk |-> d]
    ELSE
    LET newContent == StringsReplace(oldContent, oldStr, newStr)
    IN [result |-> <<"Updated">>, err |-> Nil,
        disk |-> MapPut(d, absPath, File(StringsSplit(newContent)))]

\* the number 123 where a text is expected
NotAString ==
    [kind |-> "number", s |-> <<>>, fields |-> <<>>, items |-> <<123>>]

\* what a tool call leaves in output
ToolRecord(op, params, r) ==
    [op |-> op, params |-> params, result |-> r.result, err |-> r.err]

\* everything but the disk, the tracked files and the record
fileFrame == <<Messages, directories, config, RecentRequest, RecentResponse,
               pc, iteration, consecutiveFailures, consolidatedToolCalls,
               toolResults, allToolsSucceeded, ret, nextID, inputs,
               inProgress, cancelled, exited, chunks, toolCallsMap, input>>

(***************************************************************************)
(* create_file, then the file in the Live Context: files are created with  *)
(* small texts and with texts at the caps of the reader, and tracked.      *)
(* output holds the records of the calls, the latest first.                *)
(***************************************************************************)
CreatePaths == {"new.txt", "./a.go"}

ContentBytes == {"a", "\n"}

\* a line of n bytes; n empty lines
LineOf(n) == [i \in 1..n |-> "a"]

LinesOf(n) == [i \in 1..(n - 1) |-> "\n"]

CreateContents ==
    UNION {[1..n -> ContentBytes] : n \in 0..MaxContent}
    \cup {LineOf(MaxLineLength), LineOf(MaxLineLength + 1),
          LinesOf(MaxFileLines), LinesOf(MaxFileLines + 2)}

CreateParams ==
    {[path |-> JStr(p), content |-> JStr(c)] :
        p \in CreatePaths, c \in CreateContents}
    \cup {[content |-> JStr(<<"a">>)],
          [path |-> JNum(123), content |-> JStr(<<"a">>)],
          [path |-> JStr("new.txt")],
          [path |-> JStr("new.txt"), content |-> NotAString]}

\* create_file, at most MaxCreates times
CreateFile ==
    /\ Len(output) < MaxCreates
    /\ \E params \in CreateParams :
           LET r == createFile(params, disk)
           IN /\ disk' = r.disk
              /\ output' = <<ToolRecord("create_file", params, r)>> \o output
    /\ UNCHANGED files
    /\ UNCHANGED fileFrame

\* the file is tracked, whole or from its second line on
TrackFile ==
    /\ \E filePath \in CreatePaths, startLine \in StartLines :
           files' = AddFile(files, filePath, startLine, <<>>).files
    /\ UNCHANGED <<disk, output>>
    /\ UNCHANGED fileFrame

NextCreate == CreateFile \/ TrackFile

SpecCreate == Init /\ [][NextCreate]_vars

\* the text is within the caps of the reader
WithinCaps(content) ==
    LET lines == StringsSplit(content)
    IN /\ Len(lines) <= MaxFileLines
       /\ \A i \in 1..Len(lines) : LineLen(lines[i]) <= MaxLineLength

\* the file the last create_file wrote is tracked whole under path p
TrackedWhole(p) ==
    /\ output # <<>>
    /\ output[1].op = "create_file"
    /\ output[1].err = Nil
    /\ p \in DOMAIN files
    /\ Canon(p) = Canon(output[1].params["path"].s)
    /\ files[p].StartLine = 1
    /\ files[p].EndLine = <<>>

\* C18: a text within the caps that create_file wrote is, once the file is
\* tracked without a range, the text of its section: the same bytes, no
\* line numbers, no marker.
C18_CreateTrackSerialize ==
    \A p \in PathSpellings \cup CreatePaths :
        (TrackedWhole(p) /\ WithinCaps(output[1].params["content"].s))
            => LET body == SerializeFiles(files, disk)[p].body
               IN /\ body.err = Nil
                  /\ ContentOf(body) = output[1].params["content"].s

\* a text of two lines, the second empty, has been written and is shown
C18_Witness ==
    /\ TrackedWhole("new.txt")
    /\ output[1].params["content"].s = <<"a", "\n">>
    /\ ContentOf(SerializeFiles(files, disk)["new.txt"].body) = <<"a", "\n">>

\* a text of MaxFileLines lines has been written and is shown
C18_WitnessAtTheCap ==
    /\ TrackedWhole("./a.go")
    /\ output[1].params["content"].s = LinesOf(MaxFileLines)
    /\ ContentOf(SerializeFiles(files, disk)["./a.go"].body)
           = LinesOf(MaxFileLines)

(***************************************************************************)
(* edit_file: files are created with small texts and edited.               *)
(***************************************************************************)
EditPaths == {"a.go", "missing.txt"}

EditContents == UNION {[1..n -> ContentBytes] : n \in 0..MaxEditLen}

OldStrs == {<<>>, <<"a">>, <<"\n">>, <<"a", "a">>, <<"b">>}

NewStrs == {<<>>, <<"b">>}

EditParams ==
    {[path |-> JStr(p), old_str |-> JStr(o), new_str |-> JStr(n)] :
        p \in EditPaths, o \in OldStrs, n \in NewStrs}
    \cup {[old_str |-> JStr(<<"a">>), new_str |-> JStr(<<"b">>)],
          [path |-> JStr("a.go"), new_str |-> JStr(<<"b">>)],
          [path |-> JStr("a.go"), old_str |-> NotAString,
           new_str |-> JStr(<<"b">>)],
          [path |-> JStr("a.go"), old_str |-> JStr(<<"a">>)],
          [path |-> JStr("a.go"), old_str |-> JStr(<<"a">>),
           new_str |-> NotAString]}

EditCreate ==
    /\ \E c \in EditContents :
           LET params == [path |-> JStr("a.go"), content |-> JStr(c)]
               r == createFile(params, disk)
           IN /\ disk' = r.disk
              /\ output' = <<ToolRecord("create_file", params, r)>>
    /\ UNCHANGED files
    /\ UNCHANGED fileFrame

\* edit_file, on files that have not grown past MaxEditLen
EditFile ==
    /\ Len(ReadFile(disk["a.go"])) <= MaxEditLen
    /\ \E params \in EditParams :
           LET r == editFile(params, disk)
           IN /\ disk' = r.disk
              /\ output' = <<ToolRecord("edit_file", params, r)>>
    /\ UNCHANGED files
    /\ UNCHANGED fileFrame

NextEdit == EditCreate \/ EditFile

SpecEdit == Init /\ [][NextEdit]_vars

\* old occurs in s at offset j
OccursAt(s, old, j) ==
    /\ j + Len(old) <= Len(s)
    /\ SubSeq(s, j + 1, j + Len(old)) = old

\* C19: edit_file called with a path it can read and an old_str the file
\* holds puts new_str in the place of the first occurrence of old_str and
\* leaves every byte before and after it, and every other file, as it was;
\* called with anything else it returns an error and leaves the disk as it
\* was.
C19_EditReplacesFirstOccurrence ==
    [][(output' # <<>> /\ output'[1].op = "edit_file") =>
         LET params == output'[1].params
             valid == /\ IsString(params, "path")
                      /\ IsString(params, "old_str")
                      /\ IsString(params, "new_str")
             abs == Canon(params["path"].s)
             readable == abs \in DOMAIN disk /\ disk[abs].exists
             s == ReadFile(disk[abs])
             old == params["old_str"].s
             new == params["new_str"].s
         IN IF valid /\ readable /\ \E j \in 0..Len(s) : OccursAt(s, old, j)
            THEN /\ output'[1].err = Nil
                 /\ \E j \in 0..Len(s) :
                        /\ OccursAt(s, old, j)
                        /\ \A k \in 0..(j - 1) : ~OccursAt(s, old, k)
                        /\ ReadFile(disk'[abs])
                               = SubSeq(s, 1, j) \o new
                                 \o SubSeq(s, j + Len(old) + 1, Len(s))
                 /\ DOMAIN disk' = DOMAIN disk
                 /\ \A q \in DOMAIN disk \ {abs} : disk'[q] = disk[q]
            ELSE /\ output'[1].err # Nil
                 /\ disk' = disk
      ]_vars

\* the first "a" of a file holding two has been replaced by "b"
C19_Witness ==
    /\ output # <<>>
    /\ output[1].op = "edit_file"
    /\ output[1].err = Nil
    /\ output[1].params["old_str"].s = <<"a">>
    /\ output[1].params["new_str"].s = <<"b">>
    /\ ReadFile(disk["a.go"]) = <<"b", "\n", "a">>

\* an edit of a text without old_str has been refused
C19_WitnessNotFound ==
    /\ output # <<>>
    /\ output[1].op = "edit_file"
    /\ output[1].err = WrapToolError("edit_file", "old_str not found in file")
    /\ ReadFile(disk["a.go"]) = <<"a", "\n", "a">>

(***************************************************************************)
(* part_003: the shell tool as a tool definition.  It sets no timeout of   *)
(* its own: a command killed with its context ends as a signalled exit,    *)
(* whose exit status is -1.                                                *)
(***************************************************************************)
shell(params, run) ==
    IF ~IsString(params, "command")
    THEN [result |-> <<>>, err |-> <<"command must be a string">>]
    ELSE IF ~run.starts
    THEN [result |-> <<>>,
          err |-> Wrap("failed to execute command", <<"exec">>)]
    ELSE LET exitCode == CASE run.wait = "ok" -> 0
                           [] run.wait = "exit" -> run.exitCode
                           [] OTHER -> -1
         IN [result |-> <<"Command:">> \o params["command"].s
                        \o <<"Exit code:", ToString(exitCode), "Output:">>
                        \o (IF TrimSpace(run.output) = <<>>
                            THEN <<"(no output)">>
                            ELSE TrimSpace(run.output)),
             err |-> Nil]

(***************************************************************************)
(* The agent loop with a backend that calls the shell tool.  Before a      *)
(* command is dispatched the environment settles how it will run.          *)
(***************************************************************************)
Runs ==
    {Run(FALSE, "ok", 0, <<>>),
     Run(TRUE, "ok", 0, <<"out">>),
     Run(TRUE, "exit", 42, <<"out">>),
     Run(TRUE, "timeout", 0, <<>>)}

\* the calls of the backend: a command, a denied command, no command
ShellTemplates ==
    {[name |-> "shell", arguments |-> Args([command |-> JStr(<<"ls">>)])],
     [name |-> "shell",
      arguments |-> Args([command |-> JStr(<<"ls", ";", "rm", "x">>)])],
     [name |-> "shell", arguments |-> Args([command |-> NotAString])]}

\* parameters the tool accepts, and parameters it refuses
GoodParams ==
    {[command |-> JStr(<<"ls">>)],
     [command |-> JStr(<<" ", "ls", "|", "wc">>)],
     [command |-> JStr(<<"ls">>), working_directory |-> JStr("src")],
     [command |-> JStr(<<"ls">>), working_directory |-> JStr("")]}

BadParams ==
    {[command |-> NotAString],
     [description |-> JStr("list")],
     [command |-> JStr(<<" ">>)],
     [command |-> JStr(<<"rm", "x">>)],
     [command |-> JStr(<<"ls", "&&", " ", "sudo", "ls">>)],
     [command |-> JStr(<<"ls">>), working_directory |-> JStr("/tmp")],
     [command |-> JStr(<<"ls">>), working_directory |-> JStr("nodir")]}

InitShell ==
    /\ InitAgent
    /\ InitStream
    /\ input \in Runs
    /\ output = <<>>

\* models.Request returns a reply that calls the shell tool
ShellRequestReturns ==
    /\ pc = "streaming"
    /\ ~cancelled
    /\ \E text \in ResponseTexts, n \in 0..MaxCalls :
           /\ nextID + n - 1 <= MaxToolCalls
           /\ \E templates \in [1..n -> ShellTemplates] :
                  /\ nextID' = nextID + n
                  /\ HandleResponse(text, CallsOf(templates, nextID), Nil)

\* the environment: how the command about to be dispatched will run
ShellRun ==
    /\ pc = "dispatch"
    /\ \E run \in Runs \ {input} : input' = run
    /\ UNCHANGED <<agentVars, streamVars, output>>

NextShell ==
    \/ \E userInput \in UserInputs : ProcessMessage(userInput)
    \/ ShellRequestReturns
    \/ RequestCancelled
    \/ Dispatch
    \/ Interrupt
    \/ ShellRun

SpecShell == InitShell /\ [][NextShell]_vars

(***************************************************************************)
(* Properties of the shell tool, checked under SpecShell.                  *)
(***************************************************************************)
\* the call is a well-formed shell command
WellFormed(toolCall) ==
    /\ toolCall.Function.Name = "shell"
    /\ toolCall.Function.Arguments.valid
    /\ DOMAIN toolCall.Function.Arguments.obj = {"command"}
    /\ toolCall.Function.Arguments.obj["command"] = JStr(<<"ls">>)

\* the step dispatches a shell call
ShellStep ==
    /\ pc = "dispatch"
    /\ Len(toolResults') = Len(toolResults) + 1
    /\ CurrentCall.Function.Name = "shell"

\* C20: a well-formed shell command that starts gives a result that is no
\* error, whatever its exit code and whether or not it timed out: the
\* result carries the exit code or the timeout and the output, and the
\* count of consecutive failures is not raised by it.  Only a call with
\* invalid parameters or a command that does not start gives an error.
C20_CommandOutcomeIsNoError ==
    [][ShellStep =>
         LET res == toolResults'[Len(toolResults')]
             ran == WellFormed(CurrentCall) /\ input.starts
         IN /\ res.IsError <=> ~ran
            /\ ran => /\ consecutiveFailures' = 0
                      /\ Contains(res.Content, input.output)
                      /\ (input.wait = "exit" /\ ~cancelled)
                             => Contains(res.Content,
                                         <<"command failed with exit code",
                                           ToString(input.exitCode)>>)
                      /\ (input.wait = "timeout" /\ ~cancelled)
                             => Contains(res.Content,
                                         <<"command timed out after">>)
            /\ \A params \in GoodParams \cup BadParams :
                   /\ ShellToolExecute(params, input, cancelled).err = Nil
                          <=> (params \in GoodParams /\ input.starts)
                   /\ shell(params, input).err = Nil
                          <=> (IsString(params, "command") /\ input.starts)
      ]_vars

\* after a failed call, a command that exited with code 42 has given a
\* normal result and the count of consecutive failures is back at 0
C20_Witness ==
    /\ pc = "dispatch"
    /\ Len(toolResults) = 2
    /\ toolResults[1].IsError
    /\ ~toolResults[2].IsError
    /\ Contains(toolResults[2].Content,
                <<"command failed with exit code", "42">>)
    /\ consecutiveFailures = 0

\* a command that timed out has given a normal result
C20_WitnessTimeout ==
    \E i \in 1..Len(toolResults) :
        /\ ~toolResults[i].IsError
        /\ Contains(toolResults[i].Content, <<"command timed out after">>)


(***************************************************************************)
(* The calls other than update_context through the consolidation, checked  *)
(* under SpecConsolidate.                                                  *)
(***************************************************************************)
OtherCallsOf(calls) == SelectSeq(calls, LAMBDA c : ~IsUpdateContext(c))

\* C30: the calls of the result that are not update_context calls are the
\* calls of the input that are not update_context calls, each with its id,
\* name and arguments, in the same order.
C30_OtherCallsKept ==
    output # <<>> => OtherCallsOf(output[1]) = OtherCallsOf(input)

C30_Witness ==
    /\ output # <<>>
    /\ Len(input) = 3
    /\ IsUpdateContext(input[1])
    /\ ~IsUpdateContext(input[2])
    /\ IsUpdateContext(input[3])
    /\ output[1] = <<output[1][1], input[2]>>

C30_WitnessTwoOthers ==
    /\ output # <<>>
    /\ Len(OtherCallsOf(input)) = 2
    /\ OtherCallsOf(input)[1] # OtherCallsOf(input)[2]
    /\ output[1] = input


(***************************************************************************)
(* The failure counter of the loop, checked under Spec.                    *)
(***************************************************************************)
\* a call is dispatched in this step
DispatchStep == pc = "dispatch" /\ Len(toolResults') = Len(toolResults) + 1

\* the loop is entered for a new user input in this step
LoopEntered == pc = "idle" /\ pc' # "idle"

LastResult(results) == results[Len(results)]

\* the number of failed results at the end of a list of results
RECURSIVE TrailingFailures(_)
TrailingFailures(results) ==
    IF results = <<>> \/ ~LastResult(results).IsError THEN 0
    ELSE 1 + TrailingFailures(SubSeq(results, 1, Len(results) - 1))

\* toolResults holds results of the input the loop is running for
ResultsOfThisInput ==
    pc = "dispatch" \/ (pc = "streaming" /\ iteration >= 1)

\* C24: the counter starts at 0 with a user input, goes up by one with a
\* failed dispatch, back to 0 with a successful one and is left alone by
\* every other step, across the calls of a message and across iterations;
\* the loop runs only while the counter is below 3, and the failure-budget
\* error is returned only when the last 3 dispatches have all failed.
C24_CounterCountsConsecutiveFailures ==
    /\ [][/\ LoopEntered => consecutiveFailures' = 0
          /\ DispatchStep =>
                consecutiveFailures' =
                    IF LastResult(toolResults').IsError
                    THEN consecutiveFailures + 1 ELSE 0
          /\ ~LoopEntered /\ ~DispatchStep => UNCHANGED consecutiveFailures
         ]_vars
    /\ [](pc # "idle" => consecutiveFailures < maxConsecutiveFailures)
    /\ [](ResultsOfThisInput =>
             /\ consecutiveFailures >= TrailingFailures(toolResults)
             /\ (\E i \in 1..Len(toolResults) : ~toolResults[i].IsError)
                    => consecutiveFailures = TrailingFailures(toolResults))
    /\ [](Returned /\ BudgetError(ret) =>
             /\ consecutiveFailures = 3
             /\ TrailingFailures(toolResults) = Len(toolResults)
                    \/ TrailingFailures(toolResults) = 3)

\* the budget is used up by failures of more than one iteration
C24_Witness ==
    /\ Returned
    /\ BudgetError(ret)
    /\ iteration >= 1
    /\ Len(toolResults) = 2
    /\ consecutiveFailures = 3

\* a success between failures: the counter has started again
C24_WitnessReset ==
    /\ pc = "streaming"
    /\ Len(toolResults) = 3
    /\ toolResults[1].IsError
    /\ ~toolResults[2].IsError
    /\ toolResults[3].IsError
    /\ consecutiveFailures = 1

(***************************************************************************)
(* A stream that breaks, checked under Spec.                               *)
(***************************************************************************)
\* C26: when models.Request fails with an error that is not a cancellation,
\* the loop returns the error at once: no message is appended, no call is
\* dispatched, and the log is the log the request was sent with.
C26_StreamErrorEndsTheTurn ==
    [][(/\ RequestReturned
        /\ RecentResponse'[1].error # Nil
        /\ ~ErrorsIs(RecentResponse'[1].error, ContextCanceled))
       => /\ pc' = "idle"
          /\ ret' = Wrap("AI response error", RecentResponse'[1].error)
          /\ Messages' = Messages
          /\ Messages' = RecentRequest[1].messages
          /\ UNCHANGED <<files, directories, disk, toolResults,
                         consolidatedToolCalls, consecutiveFailures>>]_vars

\* the stream breaks in a later iteration, after calls were dispatched
C26_Witness ==
    /\ Returned
    /\ iteration >= 1
    /\ RecentResponse # <<>>
    /\ RecentResponse[1].error = StreamError
    /\ ret = Wrap("AI response error", StreamError)
    /\ Messages[Len(Messages)].Role = "tool"

(***************************************************************************)
(* The loop with a backend whose calls fail at the dispatch: a name that   *)
(* is not registered, arguments that do not parse.                         *)
(***************************************************************************)
DispatchTemplates ==
    {[name |-> "nope", arguments |-> Args(<<>>)],
     [name |-> "edit_file", arguments |-> BadArgs],
     [name |-> "update_context",
      arguments |-> Args([add_file |-> JStr("./a.go")])]}

DispatchRequestReturns ==
    /\ pc = "streaming"
    /\ ~cancelled
    /\ \E text \in ResponseTexts, n \in 0..MaxCalls :
           /\ nextID + n - 1 <= MaxToolCalls
           /\ \E templates \in [1..n -> DispatchTemplates] :
                  /\ nextID' = nextID + n
                  /\ HandleResponse(text, CallsOf(templates, nextID), Nil)

NextDispatch ==
    \/ \E userInput \in UserInputs : ProcessMessage(userInput)
    \/ DispatchRequestReturns
    \/ RequestFails
    \/ RequestCancelled
    \/ Dispatch
    \/ Interrupt

SpecDispatch == Init /\ [][NextDispatch]_vars

\* the call has no registered tool, or arguments that are not JSON
FailsAtDispatch(call) ==
    \/ call.Function.Name \notin RegisteredTools
    \/ ~call.Function.Arguments.valid

DispatchErrors ==
    {<<"tool not found">>,
     Wrap("failed to parse tool arguments", <<"invalid character">>)}

\* C25: the dispatch of a call whose name is not registered or whose
\* arguments do not parse changes neither the store nor the disk nor the
\* log (but for the tool-result messages the loop appends); the failure is
\* recorded as the result of that call, with the error as its content,
\* counts as one failure, and the loop goes on unless the budget is used up.
C25_DispatchFailureIsAResult ==
    [][(DispatchStep /\ FailsAtDispatch(CurrentCall)) =>
          /\ UNCHANGED <<files, directories, disk>>
          /\ Messages' \in
                 {Messages,
                  AddToolResultsMessage(Messages, toolResults'),
                  AddUserMessage(
                      AddToolResultsMessage(Messages, toolResults'),
                      <<"Please fix the error and try again.">>)}
          /\ \E e \in DispatchErrors :
                 LastResult(toolResults') =
                     ToolResult(CurrentCall.ID, CurrentCall.Function.Name,
                                <<"Tool execution failed:">> \o e, TRUE)
          /\ consecutiveFailures' = consecutiveFailures + 1
          /\ consecutiveFailures' < maxConsecutiveFailures =>
                 /\ pc' \in {"dispatch", "streaming"}
                 /\ ret' = ret
          /\ pc' = "streaming" =>
                 /\ HasResult(Messages', CurrentCall.ID)
                 /\ Messages'[Len(Messages')].Role = "user"
         ]_vars

\* arguments that do not parse, and the loop has gone on to a request
C25_Witness ==
    /\ pc = "streaming"
    /\ iteration = 1
    /\ Len(toolResults) = 2
    /\ ~toolResults[1].IsError
    /\ toolResults[2].Content =
           <<"Tool execution failed:", "failed to parse tool arguments",
             "invalid character">>
    /\ \E p \in DOMAIN files : Canon(p) = "a.go"

\* a name that is not registered, with calls still to dispatch
C25_WitnessNotFound ==
    /\ pc = "dispatch"
    /\ Len(toolResults) = 1
    /\ Len(consolidatedToolCalls) = 2
    /\ toolResults[1].Content = <<"Tool execution failed:", "tool not found">>
    /\ consecutiveFailures = 1


(***************************************************************************)
(* tools/remove_message.go: the remove_message tool.  The delete callback  *)
(* is the environment's: it may be nil, and a call of it reports a         *)
(* deletion, no match, or an error.  The result keeps the calls the tool   *)
(* made of the callback.                                                   *)
(***************************************************************************)
DeleteMessageFunc(isNil, deleted, err) ==
    [isNil |-> isNil, deleted |-> deleted, err |-> err]

RemoveResult(human, agent, err, calls) ==
    [human |-> human, agent |-> agent, err |-> err, calls |-> calls]

\* params[key].(string) with a missing or non-string value: ""
StringOrZero(params, key) ==
    IF IsString(params, key) THEN params[key].s ELSE <<>>

\* a faulty variant of removeMessage: message_id is not checked
removeMessageAnyID(params, deleteMessageFunc) ==
    IF ~IsString(params, "role")
    THEN RemoveResult(<<>>, <<>>,
                      <<"role must be one of: user, assistant, tool">>, <<>>)
    ELSE
    LET role == params["role"].s
        messageID == StringOrZero(params, "message_id")
        calls == <<<<role, messageID>>>>
    IN IF deleteMessageFunc.deleted
       THEN RemoveResult(<<"Deleted ">> \o role \o <<" message with ID: ">>
                             \o messageID \o <<"\n">>,
                         <<"Deleted">>, Nil, calls)
       ELSE RemoveResult(<<"Message not found\n">>, <<"Not found">>, Nil,
                         calls)

removeMessage(params, deleteMessageFunc) ==
    IF ~IsString(params, "role")
    THEN RemoveResult(<<>>, <<>>,
                      <<"role must be one of: user, assistant, tool">>, <<>>)
    ELSE IF ~IsString(params, "message_id")
    THEN RemoveResult(<<>>, <<>>, <<"must provide message_id">>, <<>>)
    ELSE IF deleteMessageFunc.isNil
    THEN RemoveResult(<<>>, <<>>, <<"message deletion function not set">>,
                      <<>>)
    ELSE
    LET role == params["role"].s
        messageID == params["message_id"].s
        calls == <<<<role, messageID>>>>
    IN IF deleteMessageFunc.err # Nil
       THEN RemoveResult(<<>>, <<>>,
                         Wrap("failed to delete message",
                              deleteMessageFunc.err), calls)
       ELSE IF deleteMessageFunc.deleted
       THEN RemoveResult(<<"Deleted ">> \o role \o <<" message with ID: ">>
                             \o messageID \o <<"\n">>,
                         <<"Deleted">>, Nil, calls)
       ELSE RemoveResult(<<"Message not found\n">>, <<"Not found">>, Nil,
                         calls)

\* the parameters tried: each key missing, a string, or not a string
RemoveRoles == {<<"user">>, <<"assistant">>, <<"tool">>, <<"bogus">>}

RemoveIDs == {<<"123">>, <<>>}

RemoveKeySets == SUBSET {"role", "message_id", "recent_count"}

RemoveParams ==
    UNION {[ks -> {JStr(v) : v \in RemoveRoles \cup RemoveIDs}
                      \cup {NotAString}] : ks \in RemoveKeySets}

RemoveCallbacks ==
    {DeleteMessageFunc(TRUE, FALSE, Nil),
     DeleteMessageFunc(FALSE, TRUE, Nil),
     DeleteMessageFunc(FALSE, FALSE, Nil),
     DeleteMessageFunc(FALSE, FALSE, <<"boom">>)}

InitRemove ==
    /\ InitAgent
    /\ InitStream
    /\ input \in [params : RemoveParams, callback : RemoveCallbacks]
    /\ output = <<>>

RemoveMessage ==
    /\ output = <<>>
    /\ output' = <<removeMessage(input.params, input.callback)>>
    /\ UNCHANGED <<input, agentVars, streamVars>>

NextRemove == RemoveMessage

SpecRemove == InitRemove /\ [][NextRemove]_vars

\* C23: when role or message_id is missing or is not a string the tool
\* returns an error with empty human and agent messages and has not called
\* the callback; otherwise, when the callback reports no match the tool
\* returns "Not found" without an error, and when it reports a deletion
\* the tool returns "Deleted" without an error.
C23_RemoveMessageOutcomes ==
    output # <<>> =>
        LET r == output[1]
            cb == input.callback
            wellFormed == /\ IsString(input.params, "role")
                          /\ IsString(input.params, "message_id")
        IN /\ ~wellFormed =>
                  /\ r.err # Nil
                  /\ r.human = <<>>
                  /\ r.agent = <<>>
                  /\ r.calls = <<>>
           /\ (wellFormed /\ ~cb.isNil /\ cb.err = Nil /\ ~cb.deleted) =>
                  /\ r.err = Nil
                  /\ r.agent = <<"Not found">>
                  /\ r.human = <<"Message not found\n">>
                  /\ Len(r.calls) = 1
           /\ (wellFormed /\ ~cb.isNil /\ cb.err = Nil /\ cb.deleted) =>
                  /\ r.err = Nil
                  /\ r.agent = <<"Deleted">>
                  /\ r.calls = <<<<input.params["role"].s,
                                   input.params["message_id"].s>>>>

\* message_id is missing and the callback would have deleted
C23_Witness ==
    /\ output # <<>>
    /\ DOMAIN input.params = {"role"}
    /\ input.params["role"] = JStr(<<"user">>)
    /\ input.callback.deleted
    /\ output[1].err = <<"must provide message_id">>
    /\ output[1].calls = <<>>

C23_WitnessNotAString ==
    /\ output # <<>>
    /\ DOMAIN input.params = {"role", "message_id"}
    /\ input.params["role"] = NotAString
    /\ input.callback.deleted
    /\ output[1].err # Nil

C23_WitnessNotFound ==
    /\ output # <<>>
    /\ output[1].agent = <<"Not found">>
    /\ output[1].err = Nil

C23_WitnessDeleted ==
    /\ output # <<>>
    /\ output[1].agent = <<"Deleted">>
    /\ output[1].human =
           <<"Deleted ", "tool", " message with ID: ", "123", "\n">>


(***************************************************************************)
(* models/openai_service.go, api/openai_service.go: the accumulation of a  *)
(* streamed reply.  Request and Invoke run the same loop.  A chunk of the  *)
(* stream carries a content token ("" for none) and may finish a tool      *)
(* call; the stream ends with chatStream.Err(), nil or an error.  The      *)
(* accumulator stands in output: how many chunks were read, the content    *)
(* and the tool calls so far, and what was returned.                       *)
(***************************************************************************)
StreamChunkOf(token, finished) == [token |-> token, finished |-> finished]

ContentTokens == {"", "a", "b"}

FinishedCalls == {<<>>, <<ToolCall(1, "shell", Args(<<>>))>>}

StreamChunks ==
    {StreamChunkOf(t, f) : t \in ContentTokens, f \in FinishedCalls}

\* what chatStream.Err() may be
StreamErrs ==
    {Nil, ContextCanceled, Wrap("Post", ContextCanceled),
     <<"connection reset">>, <<"context deadline exceeded">>}

Streams ==
    UNION {[1..n -> StreamChunks] : n \in 0..MaxFrags}

Accumulator(pos, content, toolCalls, returned) ==
    [pos |-> pos, content |-> content, toolCalls |-> toolCalls,
     returned |-> returned]

InitRequest ==
    /\ InitAgent
    /\ InitStream
    /\ input \in [stream : Streams, err : StreamErrs]
    /\ output = Accumulator(0, <<>>, <<>>, <<>>)

\* one pass of the loop over chatStream.Next()
RequestNextChunk ==
    /\ output.returned = <<>>
    /\ output.pos < Len(input.stream)
    /\ LET chunk == input.stream[output.pos + 1]
       IN output' =
              Accumulator(output.pos + 1,
                          IF chunk.token # ""
                          THEN Append(output.content, chunk.token)
                          ELSE output.content,
                          output.toolCalls \o chunk.finished,
                          <<>>)
    /\ UNCHANGED <<input, agentVars, streamVars>>

\* what Request returns once the stream has ended with err
RequestResult(content, toolCalls, err) ==
    IF err # Nil
    THEN IF ErrorsIs(err, ContextCanceled)
         THEN [content |-> <<>>, toolCalls |-> <<>>,
               err |-> Wrap("request cancelled", err)]
         ELSE [content |-> <<>>, toolCalls |-> <<>>,
               err |-> Wrap("stream error", err)]
    ELSE [content |-> content, toolCalls |-> toolCalls, err |-> Nil]

\* the stream has ended: Request returns
RequestReturn ==
    /\ output.returned = <<>>
    /\ output.pos = Len(input.stream)
    /\ output' = [output EXCEPT !.returned =
                      <<RequestResult(output.content, output.toolCalls,
                                      input.err)>>]
    /\ UNCHANGED <<input, agentVars, streamVars>>

NextRequest == RequestNextChunk \/ RequestReturn

SpecRequest == InitRequest /\ [][NextRequest]_vars

\* C27: when the stream ends with an error, Request returns the text and
\* the tool calls received so far together with the error, and the error
\* is a cancellation exactly when the stream was ended by the caller's
\* cancellation.
C27_PartialReplyComesWithTheError ==
    (output.returned # <<>> /\ input.err # Nil) =>
        /\ output.returned[1].err # Nil
        /\ output.returned[1].content = output.content
        /\ output.returned[1].toolCalls = output.toolCalls
        /\ ErrorsIs(output.returned[1].err, ContextCanceled)
               <=> ErrorsIs(input.err, ContextCanceled)

\* the part of C27 about the error alone
C27_ErrorTellsCancellationApart ==
    (output.returned # <<>> /\ input.err # Nil) =>
        /\ output.returned[1].err # Nil
        /\ ErrorsIs(output.returned[1].err, ContextCanceled)
               <=> ErrorsIs(input.err, ContextCanceled)
        /\ ErrorsIs(output.returned[1].err, input.err)

\* a stream that broke after text and a finished tool call
C27_WitnessBrokenStream ==
    /\ output.returned # <<>>
    /\ input.err = <<"connection reset">>
    /\ output.content = <<"a", "b">>
    /\ Len(output.toolCalls) = 1
    /\ output.returned[1].err = StreamError


(***************************************************************************)
(* agent.go: the status channel of ExecuteToolCall.  The goroutine of the  *)
(* call ("main"), the tool it runs and the goroutine that prints the       *)
(* statuses take their steps one at a time.  The tool is the              *)
(* environment's: input says whether the call has a tool and parameters    *)
(* and how many statuses the tool sends; the i-th status is i.  The state  *)
(* of the call stands in output.                                           *)
(***************************************************************************)
statusChCapacity == 10

MaxStatuses == 12

StatusInputs ==
    [fails : {"no", "lookup", "parse"}, statuses : 0..MaxStatuses]

StatusState(main, sent, statusCh, closed, consumer, status, printed, done,
            panicked) ==
    [main |-> main, sent |-> sent, statusCh |-> statusCh, closed |-> closed,
     consumer |-> consumer, status |-> status, printed |-> printed,
     done |-> done, panicked |-> panicked]

InitStatus ==
    /\ InitAgent
    /\ InitStream
    /\ input \in StatusInputs
    /\ output = StatusState("lookup", 0, <<>>, FALSE, "none", 0, <<>>, FALSE,
                            FALSE)

statusFrame == <<input, agentVars, streamVars>>

\* the lookup of the tool and the parsing of the arguments; then
\* make(chan string, 10), make(chan struct{}) and the go statement
StatusLookup ==
    /\ output.main = "lookup"
    /\ output' = IF input.fails # "no"
                 THEN [output EXCEPT !.main = "returned"]
                 ELSE [output EXCEPT !.main = "execute",
                                     !.consumer = "range"]
    /\ UNCHANGED statusFrame

\* the tool sends a status: statusCh <- status blocks while the channel is
\* full, and panics when it is closed
ToolSends ==
    /\ output.main = "execute"
    /\ output.sent < input.statuses
    /\ IF output.closed
       THEN output' = [output EXCEPT !.panicked = TRUE, !.main = "returned"]
       ELSE /\ Len(output.statusCh) < statusChCapacity
            /\ output' = [output EXCEPT
                              !.sent = @ + 1,
                              !.statusCh = Append(@, output.sent + 1)]
    /\ UNCHANGED statusFrame

\* tool.Execute returns
ToolReturns ==
    /\ output.main = "execute"
    /\ output.sent = input.statuses
    /\ output' = [output EXCEPT !.main = "close"]
    /\ UNCHANGED statusFrame

\* close(statusCh)
CloseStatusCh ==
    /\ output.main = "close"
    /\ output' = [output EXCEPT !.closed = TRUE, !.main = "wait"]
    /\ UNCHANGED statusFrame

\* <-done, and the return of ExecuteToolCall
WaitDone ==
    /\ output.main = "wait"
    /\ output.done
    /\ output' = [output EXCEPT !.main = "returned"]
    /\ UNCHANGED statusFrame

\* a faulty variant of ConsumerReceives: the goroutine ends as soon as it
\* finds the channel empty
ConsumerLeavesWhenEmpty ==
    /\ output.consumer = "range"
    /\ IF output.statusCh # <<>>
       THEN output' = [output EXCEPT !.status = Head(output.statusCh),
                                     !.statusCh = Tail(@),
                                     !.consumer = "print"]
       ELSE output' = [output EXCEPT !.consumer = "exited", !.done = TRUE]
    /\ UNCHANGED statusFrame

\* for status := range statusCh: the next status is taken; the range ends
\* when the channel is closed and empty, and the deferred close(done) runs
ConsumerReceives ==
    /\ output.consumer = "range"
    /\ ~(output.statusCh = <<>> /\ ~output.closed)
    /\ IF output.statusCh # <<>>
       THEN output' = [output EXCEPT !.status = Head(output.statusCh),
                                     !.statusCh = Tail(@),
                                     !.consumer = "print"]
       ELSE output' = [output EXCEPT !.consumer = "exited", !.done = TRUE]
    /\ UNCHANGED statusFrame

\* fmt.Printf("%s", status)
ConsumerPrints ==
    /\ output.consumer = "print"
    /\ output' = [output EXCEPT !.printed = Append(@, output.status),
                                !.consumer = "range"]
    /\ UNCHANGED statusFrame

NextStatus ==
    \/ StatusLookup
    \/ ToolSends
    \/ ToolReturns
    \/ CloseStatusCh
    \/ WaitDone
    \/ ConsumerReceives
    \/ ConsumerPrints

SpecStatus == InitStatus /\ [][NextStatus]_vars

\* every goroutine that can take a step takes one in the end: the tool
\* and the goroutine of the call are one thread, the printing goroutine
\* another, and the scheduler of the runtime starves neither
SpecStatusLive ==
    /\ SpecStatus
    /\ WF_vars(StatusLookup \/ ToolSends \/ ToolReturns \/ CloseStatusCh
                 \/ WaitDone)
    /\ WF_vars(ConsumerReceives \/ ConsumerPrints)

AllStatuses == [i \in 1..input.statuses |-> i]

\* C28: ExecuteToolCall always returns, whatever the number of statuses
\* the tool sends, and no status is sent on a closed channel; the channel
\* never holds more than 10 statuses, one goroutine drains it; it is
\* closed only once the tool has returned; and when ExecuteToolCall
\* returns, the goroutine has printed every status sent, in order, and has
\* ended.
C28_StatusChannelIsSafeAndLive ==
    /\ <>(output.main = "returned")
    /\ [](~output.panicked)
    /\ [](Len(output.statusCh) <= statusChCapacity)
    /\ [](output.closed => output.main \in {"wait", "returned"}
                            /\ output.sent = input.statuses)
    /\ [](output.main = "returned" /\ input.fails = "no" =>
             /\ output.printed = AllStatuses
             /\ output.statusCh = <<>>
             /\ output.consumer = "exited")
    /\ [](output.main = "returned" /\ input.fails # "no" =>
             output.consumer = "none" /\ output.sent = 0)

\* the tool has sent more statuses than the channel holds
C28_Witness ==
    /\ output.main = "returned"
    /\ input.statuses = MaxStatuses
    /\ Len(output.printed) = MaxStatuses
    /\ output.consumer = "exited"

\* the tool stands blocked on a full channel
C28_WitnessFull ==
    /\ output.main = "execute"
    /\ Len(output.statusCh) = statusChCapacity
    /\ output.sent < input.statuses


(***************************************************************************)
(* The loop with a cancellation while a shell command is dispatched.  The  *)
(* command is made with exec.CommandContext on the context of the request  *)
(* (tools/shell.go, createCommand; unnamed/part_003, shell): left alone it *)
(* runs as LeftAlone says; once the context is cancelled the process is    *)
(* killed unless it has ended already.  The loop stands at "dispatch"      *)
(* while the command of the current call runs.                             *)
(***************************************************************************)
LeftAlone == Run(TRUE, "ok", 0, <<"out">>)

Killed == Run(TRUE, "killed", -1, <<>>)

CancelTemplates ==
    {[name |-> "shell", arguments |-> Args([command |-> JStr(<<"ls">>)])],
     [name |-> "update_context",
      arguments |-> Args([add_file |-> JStr("./a.go")])]}

InitCancel ==
    /\ InitAgent
    /\ InitStream
    /\ input = LeftAlone
    /\ output = <<>>

CancelRequestReturns ==
    /\ pc = "streaming"
    /\ ~cancelled
    /\ \E text \in ResponseTexts, n \in 0..MaxCalls :
           /\ nextID + n - 1 <= MaxToolCalls
           /\ \E templates \in [1..n -> CancelTemplates] :
                  /\ nextID' = nextID + n
                  /\ HandleResponse(text, CallsOf(templates, nextID), Nil)

\* the context is cancelled while the command of the current call runs:
\* the process is killed
CancelKills ==
    /\ pc = "dispatch"
    /\ cancelled
    /\ CurrentCall.Function.Name = "shell"
    /\ input = LeftAlone
    /\ input' = Killed
    /\ UNCHANGED <<agentVars, streamVars, output>>

NextCancel ==
    \/ \E userInput \in UserInputs : ProcessMessage(userInput)
    \/ CancelRequestReturns
    \/ RequestCancelled
    \/ Dispatch
    \/ Interrupt
    \/ CancelKills

SpecCancel == InitCancel /\ [][NextCancel]_vars

\* C29: a dispatch that is under way when the cancellation fires runs to
\* its end: the shell command gives the result it gives when left alone;
\* and the loop does not stop on the cancellation before the results of
\* the dispatched calls are in the log.
C29_DispatchOutlivesCancellation ==
    [][/\ (DispatchStep /\ CurrentCall.Function.Name = "shell") =>
             LastResult(toolResults') =
                 ToolResult(CurrentCall.ID, "shell",
                            ShellToolExecute(
                                CurrentCall.Function.Arguments.obj,
                                LeftAlone, FALSE).result,
                            FALSE)
       /\ (pc = "dispatch" /\ pc' = "idle") => BudgetError(ret')]_vars

\* the part of C29 about the loop: it never stops in the middle of the
\* calls on a cancellation, and when it has stopped on one every call of
\* the last assistant message has its tool-result message in the log
C29_ResultsAppendedBeforeTheLoopStops ==
    /\ [][(pc = "dispatch" /\ pc' = "idle") => BudgetError(ret')]_vars
    /\ [](Returned /\ ErrorsIs(ret, ContextCanceled) =>
             \A i \in 1..Len(consolidatedToolCalls) :
                 HasResult(Messages, consolidatedToolCalls[i].ID))

\* the command was killed and its result is in the log
C29_WitnessKilled ==
    /\ Returned
    /\ ErrorsIs(ret, ContextCanceled)
    /\ input = Killed
    /\ \E i \in 1..Len(Messages) :
           /\ Messages[i].Role = "tool"
           /\ Messages[i].Content = <<"Command failed:", "command cancelled">>


(***************************************************************************)
(* commands.go, miniagents/context_pruner.go: a turn and the commands of   *)
(* the main goroutine next to the goroutine handlePrune starts.  Neither   *)
(* the log nor the maps of LiveContext carry a lock, so an operation on    *)
(* them is not one step: it begins, seeing the state as it is then, and    *)
(* ends.  output keeps what each goroutine is in the middle of and what it *)
(* saw.  Two goroutines in the same map, one of them writing, may end in   *)
(* the runtime's "concurrent map" fatal error; an append or a delete on    *)
(* the log that overlaps another write may lose it.                        *)
(***************************************************************************)
\* the operations of the main goroutine and of the pruning goroutine
TurnOps ==
    {"AddUserMessage", "AddFile", "RemoveFile", "BuildSystemPrompt",
     "ListFiles"}

PrunerOps == {"buildSystemPrompt", "DeleteMessage", "RemoveFile"}

\* what an operation reads and what it writes
Writes(op) ==
    CASE op \in {"AddUserMessage", "DeleteMessage"} -> {"Messages"}
      [] op \in {"AddFile", "RemoveFile"} -> {"files"}
      [] OTHER -> {}

Reads(op) ==
    CASE op \in {"BuildSystemPrompt", "buildSystemPrompt"} ->
           {"Messages", "files"}
      [] op = "ListFiles" -> {"files"}
      [] OTHER -> {}

Accesses(op) == Reads(op) \cup Writes(op)

Seen(msgs, fs) == [Messages |-> msgs, files |-> fs]

PruneState(turn, turnSaw, pruning, pruner, prunerSaw, crashed) ==
    [turn |-> turn, turnSaw |-> turnSaw, pruning |-> pruning,
     pruner |-> pruner, prunerSaw |-> prunerSaw, crashed |-> crashed]

InitPrune ==
    /\ InitAgent
    /\ InitStream
    /\ input = <<>>
    /\ output = PruneState("", Seen(<<>>, EmptyMap), "idle", "",
                           Seen(<<>>, EmptyMap), FALSE)

pruneFrame == <<directories, disk, config, RecentRequest, RecentResponse, pc,
                iteration, consecutiveFailures, consolidatedToolCalls,
                toolResults, allToolsSucceeded, ret, nextID, inputs,
                inProgress, cancelled, exited, streamVars, input>>

\* the logs an operation may leave that began on saw and ends on msgs
LogAfter(op, saw, msgs) ==
    CASE op = "AddUserMessage" ->
           {AddUserMessage(base, <<"hello">>) :
                base \in {msgs, saw.Messages}}
      [] op = "DeleteMessage" ->
           {DeleteMessage(base, "user", "").Messages :
                base \in {msgs, saw.Messages}}
      [] OTHER -> {msgs}

FilesAfter(op, fs) ==
    CASE op = "AddFile" -> AddFile(fs, "a.go", 1, <<>>).files
      [] op = "RemoveFile" -> RemoveFile(fs, "README.md").files
      [] OTHER -> fs

\* whether an operation may end in the fatal error, the other goroutine
\* being in other
CrashOutcomes(op, other) ==
    IF /\ "files" \in Accesses(op) \cap Accesses(other)
       /\ "files" \in Writes(op) \cup Writes(other)
    THEN BOOLEAN ELSE {FALSE}

\* the main goroutine begins an operation of a turn or of a command
TurnBegins ==
    /\ ~output.crashed
    /\ output.turn = ""
    /\ \E op \in TurnOps :
           /\ op = "AddUserMessage" => Len(Messages) < MaxLog
           /\ output' = [output EXCEPT !.turn = op,
                                       !.turnSaw = Seen(Messages, files)]
    /\ UNCHANGED <<Messages, files, pruneFrame>>

TurnEnds ==
    /\ ~output.crashed
    /\ output.turn # ""
    /\ Messages' \in LogAfter(output.turn, output.turnSaw, Messages)
    /\ files' = FilesAfter(output.turn, files)
    /\ \E c \in CrashOutcomes(output.turn, output.pruner) :
           output' = [output EXCEPT !.turn = "", !.crashed = c]
    /\ UNCHANGED pruneFrame

\* /prune: the history is read and the goroutine started
HandlePrune ==
    /\ ~output.crashed
    /\ output.turn = ""
    /\ output.pruning = "idle"
    /\ output' = [output EXCEPT !.pruning = "running"]
    /\ UNCHANGED <<Messages, files, pruneFrame>>

\* the pruning goroutine begins to build its prompt or to run a tool
PrunerBegins ==
    /\ ~output.crashed
    /\ output.pruning = "running"
    /\ output.pruner = ""
    /\ \E op \in PrunerOps :
           output' = [output EXCEPT !.pruner = op,
                                    !.prunerSaw = Seen(Messages, files)]
    /\ UNCHANGED <<Messages, files, pruneFrame>>

PrunerEnds ==
    /\ ~output.crashed
    /\ output.pruner # ""
    /\ Messages' \in LogAfter(output.pruner, output.prunerSaw, Messages)
    /\ files' = FilesAfter(output.pruner, files)
    /\ \E c \in CrashOutcomes(output.pruner, output.turn) :
           output' = [output EXCEPT !.pruner = "", !.crashed = c]
    /\ UNCHANGED pruneFrame

\* PruneContext returns
PrunerReturns ==
    /\ ~output.crashed
    /\ output.pruning = "running"
    /\ output.pruner = ""
    /\ output' = [output EXCEPT !.pruning = "idle"]
    /\ UNCHANGED <<Messages, files, pruneFrame>>

NextPrune ==
    \/ TurnBegins
    \/ TurnEnds
    \/ HandlePrune
    \/ PrunerBegins
    \/ PrunerEnds
    \/ PrunerReturns

SpecPrune == InitPrune /\ [][NextPrune]_vars

\* C21: no goroutine writes the log or the Live Context entries while the
\* other goroutine reads or writes the same; two readers may overlap.
C21_WritersAreAlone ==
    \A x \in {"Messages", "files"} :
        /\ x \in Writes(output.turn) => x \notin Accesses(output.pruner)
        /\ x \in Writes(output.pruner) => x \notin Accesses(output.turn)

\* two readers at once
C21_WitnessReaders ==
    /\ output.turn = "ListFiles"
    /\ output.pruner = "buildSystemPrompt"

\* an append that overlapped a delete of the pruning goroutine has put the
\* deleted message back
C21_WitnessLostDelete ==
    /\ output.turn = ""
    /\ output.pruner = ""
    /\ output.pruning = "running"
    /\ Len(Messages) = 3
    /\ Len(output.prunerSaw.Messages) = 2
    /\ Len(output.turnSaw.Messages) = 2


(***************************************************************************)
(* main.go, commands.go: the goroutine that handles Ctrl+C next to         *)
(* processWithToolLoop, step by step.  inProgressMutex is held by "main",  *)
(* by "signal" or by nobody; sigChan holds at most one signal.  output     *)
(* keeps where the two goroutines stand, the mutex, the channel, whether   *)
(* cancelFunc is set (NewChatbot sets one), and the number of requests     *)
(* begun.                                                                  *)
(***************************************************************************)
MaxRequests == 2

sigChanCapacity == 1

SignalState(main, signal, mutex, sigChan, cancelFunc, requests) ==
    [main |-> main, signal |-> signal, mutex |-> mutex, sigChan |-> sigChan,
     cancelFunc |-> cancelFunc, requests |-> requests]

InitSignal ==
    /\ InitAgent
    /\ InitStream
    /\ input = <<>>
    /\ output = SignalState("prompt", "receive", "", 0, TRUE, 0)

signalFrame == <<Messages, files, directories, disk, config, RecentRequest,
                 RecentResponse, pc, iteration, consecutiveFailures,
                 consolidatedToolCalls, toolResults, allToolsSucceeded, ret,
                 nextID, inputs, streamVars, input>>

\* a faulty variant of ShouldCancel: the flag is not looked at
HasCancelFunc(flag, cancelFunc) == cancelFunc

\* chatbot.inProgress && chatbot.cancelFunc != nil
ShouldCancel(flag, cancelFunc) == flag /\ cancelFunc

\* Ctrl+C: the runtime puts the signal on sigChan unless the channel is
\* full
SignalArrives ==
    /\ ~exited
    /\ output.sigChan < sigChanCapacity
    /\ output' = [output EXCEPT !.sigChan = @ + 1]
    /\ UNCHANGED <<signalFrame, inProgress, cancelled, exited>>

\* <-sigChan
SignalReceived ==
    /\ ~exited
    /\ output.signal = "receive"
    /\ output.sigChan > 0
    /\ output' = [output EXCEPT !.sigChan = @ - 1, !.signal = "lock"]
    /\ UNCHANGED <<signalFrame, inProgress, cancelled, exited>>

\* inProgressMutex.Lock() of the signal goroutine
SignalLocks ==
    /\ ~exited
    /\ output.signal = "lock"
    /\ output.mutex = ""
    /\ output' = [output EXCEPT !.mutex = "signal", !.signal = "check"]
    /\ UNCHANGED <<signalFrame, inProgress, cancelled, exited>>

\* the check, cancelFunc() or os.Exit(0), and the Unlock
SignalChecks ==
    /\ ~exited
    /\ output.signal = "check"
    /\ IF ShouldCancel(inProgress, output.cancelFunc)
       THEN cancelled' = TRUE /\ UNCHANGED exited
       ELSE exited' = TRUE /\ UNCHANGED cancelled
    /\ output' = [output EXCEPT !.mutex = "", !.signal = "receive"]
    /\ UNCHANGED <<signalFrame, inProgress>>

\* the user enters a line: processWithToolLoop is called
LineEntered ==
    /\ ~exited
    /\ output.main = "prompt"
    /\ output.requests < MaxRequests
    /\ output' = [output EXCEPT !.main = "lock", !.requests = @ + 1]
    /\ UNCHANGED <<signalFrame, inProgress, cancelled, exited>>

\* inProgressMutex.Lock() of processWithToolLoop, at its start and in its
\* deferred function
MainLocks ==
    /\ ~exited
    /\ output.main \in {"lock", "returning"}
    /\ output.mutex = ""
    /\ output' = [output EXCEPT
                      !.mutex = "main",
                      !.main = IF @ = "lock" THEN "set" ELSE "clear"]
    /\ UNCHANGED <<signalFrame, inProgress, cancelled, exited>>

\* inProgress = true, the new context and its cancelFunc, Unlock
RequestBegins ==
    /\ ~exited
    /\ output.main = "set"
    /\ inProgress' = TRUE
    /\ cancelled' = FALSE
    /\ output' = [output EXCEPT !.mutex = "", !.main = "processing",
                                !.cancelFunc = TRUE]
    /\ UNCHANGED <<signalFrame, exited>>

\* ProcessWithDirectService returns, on its own or because the context
\* was cancelled
ProcessingReturns ==
    /\ ~exited
    /\ output.main = "processing"
    /\ output' = [output EXCEPT !.main = "returning"]
    /\ UNCHANGED <<signalFrame, inProgress, cancelled, exited>>

\* inProgress = false, Unlock
RequestEnds ==
    /\ ~exited
    /\ output.main = "clear"
    /\ inProgress' = FALSE
    /\ output' = [output EXCEPT !.mutex = "", !.main = "prompt"]
    /\ UNCHANGED <<signalFrame, cancelled, exited>>

NextSignal ==
    \/ SignalArrives
    \/ SignalReceived
    \/ SignalLocks
    \/ SignalChecks
    \/ LineEntered
    \/ MainLocks
    \/ RequestBegins
    \/ ProcessingReturns
    \/ RequestEnds

SpecSignal == InitSignal /\ [][NextSignal]_vars

\* a request is being processed: it has begun and has not ended
BeingProcessed == output.main \in {"processing", "returning"}

\* the signal goroutine handles an interrupt in this step
InterruptHandled == output.signal = "check" /\ output'.signal = "receive"

\* C22: when an interrupt is handled while a request is being processed,
\* the context of that request is cancelled and the process keeps
\* running; when none is being processed, also after a request was
\* cancelled or has ended, the process exits.  The check and the cancel
\* are one step for the start and the end of a request: while the signal
\* goroutine holds the mutex the main goroutine is neither setting nor
\* clearing the flag, and the flag says whether a request is being
\* processed.
C22_InterruptCancelsOrExits ==
    /\ [][InterruptHandled =>
             IF BeingProcessed
             THEN cancelled' /\ ~exited' /\ inProgress'
             ELSE exited' /\ cancelled' = cancelled]_vars
    /\ [](output.mutex = "signal" =>
             /\ output.main \notin {"set", "clear"}
             /\ inProgress <=> BeingProcessed)
    /\ [](output.mutex = "main" => output.signal # "check")

\* the request was cancelled and goes on to its end
C22_Witness ==
    /\ cancelled
    /\ ~exited
    /\ inProgress
    /\ output.main = "returning"
    /\ output.signal = "receive"

\* an interrupt after a cancelled request has ended: the process exits
C22_WitnessExitAfterCancel ==
    /\ exited
    /\ cancelled
    /\ ~inProgress
    /\ output.cancelFunc
    /\ output.main = "prompt"


(***************************************************************************)
(* The loop with a backend that calls update_context with operations that  *)
(* fail: a file that is not tracked is removed, a range that ends before   *)
(* it starts is added, no operation is named.                              *)
(***************************************************************************)
UpdateTemplates ==
    {[name |-> "nope", arguments |-> Args(<<>>)],
     [name |-> "update_context",
      arguments |-> Args([remove_file |-> JStr("b.go")])],
     [name |-> "update_context",
      arguments |-> Args([add_file |-> JObj([path |-> "a.go",
                                             start_line |-> 5,
                                             end_line |-> 2]),
                          remove_file |-> JStr("README.md")])],
     [name |-> "update_context", arguments |-> Args(<<>>)],
     [name |-> "update_context",
      arguments |-> Args([remove_file |-> JObj([start_line |-> 1])])]}

UpdateRequestReturns ==
    /\ pc = "streaming"
    /\ ~cancelled
    /\ \E text \in ResponseTexts, n \in 0..MaxCalls :
           /\ nextID + n - 1 <= MaxToolCalls
           /\ \E templates \in [1..n -> UpdateTemplates] :
                  /\ nextID' = nextID + n
                  /\ HandleResponse(text, CallsOf(templates, nextID), Nil)

NextUpdate ==
    \/ \E userInput \in UserInputs : ProcessMessage(userInput)
    \/ UpdateRequestReturns
    \/ Dispatch

SpecUpdate == Init /\ [][NextUpdate]_vars

\* the item names a path to remove
NamesAPath(item) ==
    \/ item.kind = "string"
    \/ item.kind = "object" /\ "path" \in DOMAIN item.fields

\* the value given for key makes Execute attempt an operation, or is of a
\* type that is no operation's
AttemptsUnder(key, value) ==
    IF value.kind = "array"
    THEN IF key \in {"add_file", "add_directory"}
         THEN value.items # <<>>
         ELSE \E i \in 1..Len(value.items) : NamesAPath(value.items[i])
    ELSE IF key \in {"add_file", "add_directory"}
         THEN TRUE
         ELSE value.kind \notin {"string", "object"} \/ NamesAPath(value)

Attempted(params) ==
    \E key \in DOMAIN params \cap MergeKeys : AttemptsUnder(key, params[key])

\* the paths the call asks to remove from the tracked files
RemovedPaths(params) ==
    IF "remove_file" \notin DOMAIN params THEN {}
    ELSE LET v == params.remove_file
             items == IF v.kind = "array" THEN v.items ELSE <<v>>
         IN {items[i].s : i \in {j \in 1..Len(items) :
                                      items[j].kind = "string"}}

UpdateStep ==
    /\ DispatchStep
    /\ IsUpdateContext(CurrentCall)
    /\ CurrentCall.Function.Arguments.valid

\* C31: the dispatch of an update_context call that attempts at least one
\* operation is recorded as the result "Ok" without the error flag and
\* puts the count of consecutive failures back to zero, whether or not
\* the operations succeed; a call that attempts none is recorded as a
\* failure and counted; and every file the call asks to remove is out of
\* the tracked files after it, whatever failed before in the same call.
C31_AttemptedUpdateIsOk ==
    [][UpdateStep =>
          LET params == CurrentCall.Function.Arguments.obj
              r == LastResult(toolResults')
          IN /\ r.ID = CurrentCall.ID
             /\ IF Attempted(params)
                THEN /\ r.Content = <<"Ok">>
                     /\ ~r.IsError
                     /\ consecutiveFailures' = 0
                ELSE /\ r.IsError
                     /\ r.Content = <<"Tool execution failed:",
                                      "no operations specified">>
                     /\ consecutiveFailures' = consecutiveFailures + 1
             /\ \A p \in RemovedPaths(params) : p \notin DOMAIN files'
         ]_vars

\* a failure, then an update_context call of which the only operation
\* failed: it is recorded as "Ok" and the counter is back at zero
C31_Witness ==
    /\ Len(toolResults) = 2
    /\ toolResults[1].IsError
    /\ toolResults[2] = ToolResult(toolResults[2].ID, "update_context",
                                   <<"Ok">>, FALSE)
    /\ consolidatedToolCalls[2].Function.Arguments.obj =
           [remove_file |-> JStr("b.go")]
    /\ consecutiveFailures = 0
    /\ "README.md" \in DOMAIN files

\* the add of the call was rejected and its remove, after it, was applied
C31_WitnessLaterApplied ==
    /\ Len(toolResults) = 1
    /\ toolResults[1].Content = <<"Ok">>
    /\ "add_file" \in DOMAIN consolidatedToolCalls[1].Function.Arguments.obj
    /\ "a.go" \notin DOMAIN files
    /\ "README.md" \notin DOMAIN files

\* no operation is named: the call fails
C31_WitnessNoOperation ==
    /\ Len(toolResults) = 1
    /\ IsUpdateContext(consolidatedToolCalls[1])
    /\ toolResults[1].IsError
    /\ consecutiveFailures = 1


(***************************************************************************)
(* The arguments of the merged call, checked under SpecConsolidate.        *)
(***************************************************************************)
\* the values the calls whose arguments parse give under key, in call order
RECURSIVE ValuesUnder(_, _)
ValuesUnder(calls, key) ==
    IF calls = <<>> THEN <<>>
    ELSE LET a == Head(calls).Function.Arguments
         IN (IF a.valid /\ key \in DOMAIN a.obj THEN <<a.obj[key]>> ELSE <<>>)
            \o ValuesUnder(Tail(calls), key)

\* the arguments of the merged call of the output
MergedArguments == UpdateContextCallsOf(output[1])[1].Function.Arguments

\* C32: when more than one update_context call is merged, the arguments of
\* the merged call parse and have no key but add_file, remove_file,
\* add_directory, remove_directory; under each of these keys they hold the
\* list of the values the calls gave for it, in call order, when two or
\* more calls gave one, the value itself in its own shape when one call
\* gave one, and nothing when no call gave one.
C32_MergedArgumentsCollectPerKey ==
    (output # <<>> /\ Len(UpdateContextCallsOf(input)) > 1) =>
        /\ MergedArguments.valid
        /\ DOMAIN MergedArguments.obj \subseteq MergeKeys
        /\ \A key \in MergeKeys :
               LET values == ValuesUnder(UpdateContextCallsOf(input), key)
               IN CASE Len(values) = 0 ->
                         key \notin DOMAIN MergedArguments.obj
                    [] Len(values) = 1 ->
                         /\ key \in DOMAIN MergedArguments.obj
                         /\ MergedArguments.obj[key] = values[1]
                    [] OTHER ->
                         /\ key \in DOMAIN MergedArguments.obj
                         /\ MergedArguments.obj[key] = JArr(values)

\* two calls add a file, one as a string and one as an object, and a third
\* names directories: a list under add_file, single values elsewhere
C32_Witness ==
    /\ output # <<>>
    /\ Len(UpdateContextCallsOf(input)) = 3
    /\ DOMAIN MergedArguments.obj = {"add_file", "add_directory",
                                     "remove_directory"}
    /\ MergedArguments.obj.add_file =
           JArr(<<JObj([path |-> "README.md", start_line |-> 2]),
                  JStr("a.go")>>)
    /\ MergedArguments.obj.add_directory = JStr("src")

\* a key that one call only gives keeps the object it was given as
C32_WitnessShapeKept ==
    /\ output # <<>>
    /\ Len(UpdateContextCallsOf(input)) = 2
    /\ DOMAIN MergedArguments.obj = {"add_file", "remove_file"}
    /\ MergedArguments.obj.add_file.kind = "object"


(***************************************************************************)
(* The place of the merged call in the dispatch order, checked under Spec. *)
(***************************************************************************)
\* the calls of the reply the loop is dispatching, as the backend gave them
RepliedCalls == RecentResponse[1].tool_calls

\* C34: while the loop dispatches a reply that held more than one
\* update_context call, the merged update_context call is the first of the
\* consolidated calls, the other calls of the reply follow it in their
\* order, and the results are recorded in the order of the consolidated
\* calls; so the merged call is dispatched before every other call of the
\* reply, wherever the update_context calls stood in it.
C34_MergedCallIsDispatchedFirst ==
    (pc = "dispatch" /\ Len(UpdateContextCallsOf(RepliedCalls)) > 1) =>
        /\ IsUpdateContext(consolidatedToolCalls[1])
        /\ Tail(consolidatedToolCalls) = OtherCallsOf(RepliedCalls)
        /\ Len(toolResults) < Len(consolidatedToolCalls)
        /\ \A i \in 1..Len(toolResults) :
               toolResults[i].ID = consolidatedToolCalls[i].ID

\* the reply began with a call of another tool, and the merged call has
\* been dispatched while that call is still to come
C34_Witness ==
    /\ pc = "dispatch"
    /\ Len(RepliedCalls) = 3
    /\ ~IsUpdateContext(RepliedCalls[1])
    /\ IsUpdateContext(RepliedCalls[2])
    /\ IsUpdateContext(RepliedCalls[3])
    /\ Len(toolResults) = 1
    /\ toolResults[1].Name = "update_context"
    /\ toolResults[1].ID = RepliedCalls[2].ID
    /\ CurrentCall = RepliedCalls[1]


(***************************************************************************)
(* The line range of a tracked file: a.go is written with one to           *)
(* MaxRangeLines lines, the i-th of i bytes, tracked with a start line and *)
(* an end line as read_file passes them on, and serialized.  output holds  *)
(* the record of the last serialization.                                   *)
(***************************************************************************)
RangeStarts == 0..(MaxRangeLines + 1)

RangeEnds ==
    {<<>>} \cup {<<e>> : e \in (0 - MaxRangeLines - 1)..(MaxRangeLines + 1)}

\* n lines, the i-th of i bytes
RangeLines(n) == [i \in 1..n |-> [j \in 1..i |-> "a"]]

\* everything but the disk, the tracked files and the record
rangeFrame == <<Messages, directories, config, RecentRequest, RecentResponse,
                pc, iteration, consecutiveFailures, consolidatedToolCalls,
                toolResults, allToolsSucceeded, ret, nextID, inputs,
                inProgress, cancelled, exited, chunks, toolCallsMap, input>>

\* the file is written
RangeWrite ==
    /\ \E n \in 1..MaxRangeLines :
           disk' = [disk EXCEPT !["a.go"] = File(RangeLines(n))]
    /\ UNCHANGED <<files, output>>
    /\ UNCHANGED rangeFrame

\* read_file: the file is tracked with the start and end line given
RangeTrack ==
    /\ \E startLine \in RangeStarts, endLine \in RangeEnds :
           files' = AddFile(files, "a.go", startLine, endLine).files
    /\ UNCHANGED <<disk, output>>
    /\ UNCHANGED rangeFrame

\* the tracked file is serialized
RangeSerialize ==
    /\ "a.go" \in DOMAIN files
    /\ output' = <<[fileInfo |-> files["a.go"],
                    lines |-> disk["a.go"].lines,
                    body |-> readFileWithOptions(files["a.go"], disk)]>>
    /\ UNCHANGED <<files, disk>>
    /\ UNCHANGED rangeFrame

NextRange == RangeWrite \/ RangeTrack \/ RangeSerialize

SpecRange == Init /\ [][NextRange]_vars

\* the end line the entry comes to in a file of n lines
EffectiveEnd(endLine, n) ==
    IF endLine = <<>> THEN n
    ELSE IF endLine[1] < 0 THEN n + endLine[1] + 1
    ELSE endLine[1]

Min(a, b) == IF a < b THEN a ELSE b

\* C33: for a file of N lines tracked from line s, the serialization is
\* rejected with an error when s > N and when min(e', N) < s, where e' is
\* N without an end line, the end line when it is not negative and
\* N + e + 1 when the end line e is negative; otherwise it is the lines
\* s..min(e', N) of the file, in order, and 1 <= s <= min(e', N) <= N.
C33_SelectedRange ==
    output # <<>> =>
        LET N == Len(output[1].lines)
            s == output[1].fileInfo.StartLine
            last == Min(EffectiveEnd(output[1].fileInfo.EndLine, N), N)
            body == output[1].body
        IN IF s > N
           THEN body.err = <<"start line exceeds file length">>
           ELSE IF last < s
           THEN body.err = <<"end line is before start line">>
           ELSE /\ body.err = Nil
                /\ 1 <= s /\ last <= N
                /\ [i \in 1..Len(body.lines) |-> body.lines[i].text] =
                       SubSeq(output[1].lines, s, last)

\* the last two of three lines, by an end line counted from the end
C33_Witness ==
    /\ output # <<>>
    /\ Len(output[1].lines) = 3
    /\ output[1].fileInfo.StartLine = 2
    /\ output[1].fileInfo.EndLine = <<-1>>
    /\ output[1].body.err = Nil
    /\ Len(output[1].body.lines) = 2
    /\ output[1].body.lines[2].text = <<"a", "a", "a">>

\* an end line past the end of the file is clamped
C33_WitnessClamped ==
    /\ output # <<>>
    /\ Len(output[1].lines) = 2
    /\ output[1].fileInfo.EndLine = <<MaxRangeLines + 1>>
    /\ output[1].body.err = Nil
    /\ Len(output[1].body.lines) = 2

\* a start line past the end of the file is rejected
C33_WitnessStartPastEnd ==
    /\ output # <<>>
    /\ output[1].fileInfo.StartLine > Len(output[1].lines)
    /\ output[1].body.err # Nil

\* an end line that comes to a line before the start line is rejected
C33_WitnessEndBeforeStart ==
    /\ output # <<>>
    /\ output[1].fileInfo.StartLine = 2
    /\ output[1].fileInfo.EndLine = <<-3>>
    /\ Len(output[1].lines) = 3
    /\ output[1].body.err = <<"end line is before start line">>


(***************************************************************************)
(* The caps of the reader, checked under SpecCreate: files of              *)
(* MaxFileLines and MaxFileLines + 2 lines and lines of MaxLineLength and  *)
(* MaxLineLength + 1 bytes are written, tracked whole or from the second   *)
(* line on, and serialized.                                                *)
(***************************************************************************)
\* the lines of the range the entry of p selects on the disk
SelectedLines(p) ==
    LET lines == disk[Canon(p)].lines
    IN SubSeq(lines, files[p].StartLine,
              Min(EffectiveEnd(files[p].EndLine, Len(lines)), Len(lines)))

IsMarker(l) == l.text # <<>> /\ l.text[1] = "... (truncated after "

\* the serialization of p emits its selected lines up to cap of them, each
\* cut to MaxLineLength bytes and "..." when it is longer, with a last
\* line that says so when, and only when, lines were left out
EmitsWithin(p, cap) ==
    LET out == SerializeFiles(files, disk)[p].body.lines
        sel == SelectedLines(p)
        marked == out # <<>> /\ IsMarker(out[Len(out)])
        content == IF marked THEN Len(out) - 1 ELSE Len(out)
    IN /\ marked <=> Len(sel) > cap
       /\ content = Min(Len(sel), cap)
       /\ \A i \in 1..content :
              /\ out[i].text = sel[i]
              /\ out[i].cut <=> LineLen(sel[i]) > MaxLineLength
              /\ LineLen(ProcessedLine([out[i] EXCEPT !.num = 0])) =
                     IF LineLen(sel[i]) > MaxLineLength
                     THEN MaxLineLength + 1
                     ELSE LineLen(sel[i])

Serialized(p) ==
    /\ Canon(p) \in DOMAIN disk
    /\ disk[Canon(p)].exists
    /\ SerializeFiles(files, disk)[p].body.err = Nil

\* C36: a tracked file that is serialized is emitted line by line up to
\* MaxFileLines lines, a longer range ending in the truncation marker after
\* at most MaxFileLines lines of content; a line of more than MaxLineLength
\* bytes is cut to MaxLineLength bytes and "..."; a file within both caps
\* is emitted whole with no marker.
C36_CapsAreMarked ==
    \A p \in DOMAIN files : Serialized(p) => EmitsWithin(p, MaxFileLines)

\* what the reader does: the marker comes after MaxFileLines + 1 lines of
\* content, and a range of MaxFileLines + 1 lines is emitted whole
C36_MarkedPastOneMoreLine ==
    \A p \in DOMAIN files : Serialized(p) => EmitsWithin(p, MaxFileLines + 1)

\* a range of MaxFileLines + 1 lines is emitted whole, with no marker
C36_WitnessOneOverTheCap ==
    /\ "./a.go" \in DOMAIN files
    /\ Serialized("./a.go")
    /\ Len(SelectedLines("./a.go")) = MaxFileLines + 1
    /\ Len(SerializeFiles(files, disk)["./a.go"].body.lines)
           = MaxFileLines + 1

\* a file of MaxFileLines + 2 lines is emitted with MaxFileLines + 1 lines
\* of content and the marker
C36_WitnessMarked ==
    /\ "./a.go" \in DOMAIN files
    /\ Serialized("./a.go")
    /\ Len(SelectedLines("./a.go")) = MaxFileLines + 2
    /\ SerializeFiles(files, disk)["./a.go"].body.lines[MaxFileLines + 2] =
           TruncationMarker(MaxFileLines + 1)

\* a line of MaxLineLength + 1 bytes is cut
C36_WitnessLineCut ==
    /\ "new.txt" \in DOMAIN files
    /\ Serialized("new.txt")
    /\ SerializeFiles(files, disk)["new.txt"].body.lines[1].cut


(***************************************************************************)
(* The in-progress flag over several user messages: the loop with a        *)
(* backend that answers with a text or with one call, a stream that may    *)
(* break, and interrupts; up to MaxRequests lines are entered.             *)
(***************************************************************************)
TurnTemplates ==
    {[name |-> "nope", arguments |-> Args(<<>>)],
     [name |-> "update_context",
      arguments |-> Args([add_file |-> JStr("./a.go")])]}

\* a faulty variant of MessageEntered: the context of the message before
\* is used again
MessageEnteredOnOldContext(userInput) ==
    /\ pc = "idle"
    /\ ~exited
    /\ inputs < MaxRequests
    /\ inputs' = inputs + 1
    /\ consecutiveFailures' = 0
    /\ LoopHead(AddUserMessage(Messages, userInput), files, directories, disk,
                0)
    /\ UNCHANGED <<files, directories, disk, config, RecentResponse,
                   consolidatedToolCalls, toolResults, allToolsSucceeded,
                   nextID, exited, cancelled>>
    /\ UNCHANGED <<streamVars, funcVars>>

\* the user enters a line: processWithToolLoop sets the flag, makes a new
\* context and enters the loop
MessageEntered(userInput) ==
    /\ pc = "idle"
    /\ ~exited
    /\ inputs < MaxRequests
    /\ inputs' = inputs + 1
    /\ cancelled' = FALSE
    /\ consecutiveFailures' = 0
    /\ LoopHead(AddUserMessage(Messages, userInput), files, directories, disk,
                0)
    /\ UNCHANGED <<files, directories, disk, config, RecentResponse,
                   consolidatedToolCalls, toolResults, allToolsSucceeded,
                   nextID, exited>>
    /\ UNCHANGED <<streamVars, funcVars>>

TurnRequestReturns ==
    /\ pc = "streaming"
    /\ ~cancelled
    /\ \E text \in ResponseTexts, n \in 0..1 :
           /\ nextID + n - 1 <= MaxToolCalls
           /\ \E templates \in [1..n -> TurnTemplates] :
                  /\ nextID' = nextID + n
                  /\ HandleResponse(text, CallsOf(templates, nextID), Nil)

NextTurns ==
    \/ \E userInput \in UserInputs : MessageEntered(userInput)
    \/ TurnRequestReturns
    \/ RequestFails
    \/ RequestCancelled
    \/ Dispatch
    \/ Interrupt

SpecTurns == Init /\ [][NextTurns]_vars

\* the loop returns in this step
LoopLeft == pc # "idle" /\ pc' = "idle"

\* C37: the in-progress flag is set exactly while the loop runs for a user
\* message: entering the loop sets it together with a context that is not
\* cancelled, whatever became of the context of the message before, and
\* every return of the loop, with or without an error, resets it; a
\* context is cancelled only by an interrupt that comes while its own
\* message is being processed, and an interrupt that comes while no
\* message is being processed ends the process and cancels nothing.
C37_FlagFollowsTheMessage ==
    /\ [](inProgress <=> pc # "idle")
    /\ [][LoopEntered => inProgress' /\ ~cancelled' /\ inputs' = inputs + 1]_vars
    /\ [][LoopLeft => ~inProgress' /\ UNCHANGED <<cancelled, inputs>>]_vars
    /\ [][(cancelled' /\ ~cancelled) =>
             /\ inProgress /\ inProgress'
             /\ UNCHANGED <<inputs, pc, exited>>]_vars
    /\ [][(~inProgress /\ UNCHANGED pc /\ ~UNCHANGED <<cancelled, exited>>) =>
             exited' /\ UNCHANGED cancelled]_vars

\* the first message was cancelled, and the second is being processed
\* under a context that is not cancelled
C37_Witness ==
    /\ inputs = 2
    /\ pc = "streaming"
    /\ inProgress
    /\ ~cancelled
    /\ RecentResponse # <<>>
    /\ RecentResponse[1].error = RequestCancelledError
    /\ Len(Messages) = 2

\* an interrupt after the loop returned with an error: the process exits
C37_WitnessIdleAfterError ==
    /\ exited
    /\ ~inProgress
    /\ inputs = 1
    /\ pc = "idle"
    /\ ret = Wrap("AI response error", StreamError)

\* the loop returned because the failure budget was used up
C37_WitnessBudget ==
    /\ pc = "idle"
    /\ ~inProgress
    /\ BudgetError(ret)


(***************************************************************************)
(* The log after an iteration of the loop, checked under Spec.             *)
(***************************************************************************)
FixRequest == Message("user", <<"Please fix the error and try again.">>, "",
                      0, <<>>)

\* the last dispatch of an iteration: the loop goes on to a request
IterationEnds == pc = "dispatch" /\ pc' = "streaming"

\* the messages of msgs from index i on are the tool-result messages of
\* results, in order
ResultsAt(msgs, i, results) ==
    /\ i >= 1
    /\ i + Len(results) - 1 <= Len(msgs)
    /\ \A k \in 1..Len(results) :
           msgs[i + k - 1] = Message("tool", results[k].Content,
                                     results[k].Name, results[k].ID, <<>>)

\* what the loop appends at the end of an iteration: the tool-result
\* messages of the iteration, then the request to fix the error when a
\* dispatch of the iteration failed and nothing when none did; the next
\* request is made with that log
FixRequestFollowsFailedIteration ==
    IterationEnds =>
        LET n == Len(toolResults')
            failed == \E k \in 1..n : toolResults'[k].IsError
            end == Len(Messages')
        IN /\ n = Len(consolidatedToolCalls)
           /\ IF failed
              THEN /\ Messages'[end] = FixRequest
                   /\ ResultsAt(Messages', end - n, toolResults')
              ELSE ResultsAt(Messages', end - n + 1, toolResults')
           /\ RecentRequest'[1].messages = Messages'
           /\ iteration' = iteration + 1

\* from message i on the log is made of user messages, assistant messages
\* without calls, and assistant messages with calls that are each followed
\* by the tool-result messages of their calls, in order; a request to fix
\* an error stands directly after a tool-result message
RECURSIVE ShapedFrom(_, _)
ShapedFrom(msgs, i) ==
    IF i > Len(msgs) THEN TRUE
    ELSE IF msgs[i].Role = "tool" THEN FALSE
    ELSE IF msgs[i] = FixRequest /\ (i = 1 \/ msgs[i - 1].Role # "tool")
    THEN FALSE
    ELSE LET n == Len(msgs[i].ToolCalls)
         IN /\ i + n <= Len(msgs)
            /\ \A k \in 1..n :
                   /\ msgs[i + k].Role = "tool"
                   /\ msgs[i + k].ToolUseID = msgs[i].ToolCalls[k].ID
            /\ ShapedFrom(msgs, i + n + 1)

\* C35: at the end of an iteration in which a dispatch failed the loop
\* appends the iteration's tool-result messages and directly after them
\* one user message asking to fix the error, and makes the next request;
\* at the end of an iteration in which every dispatch succeeded it appends
\* the tool-result messages only; and whenever the loop is not in the
\* middle of an iteration the log is made of assistant messages with
\* calls, each followed by the results of its calls and then possibly the
\* request to fix, between the other messages.
C35_LogShape ==
    /\ [][FixRequestFollowsFailedIteration]_vars
    /\ [](pc # "dispatch" => ShapedFrom(Messages, 1))

\* the part on the end of an iteration alone
C35_FixRequestAfterFailedIteration == [][FixRequestFollowsFailedIteration]_vars

\* an iteration of two calls, the second failed: the results and the
\* request to fix are in the log and the next request is out
C35_WitnessFixRequested ==
    /\ pc = "streaming"
    /\ iteration = 1
    /\ Len(toolResults) = 2
    /\ ~toolResults[1].IsError
    /\ toolResults[2].IsError
    /\ Messages[Len(Messages)] = FixRequest
    /\ ShapedFrom(Messages, 1)

\* an iteration of which every call succeeded: no request to fix
C35_WitnessNoFixRequest ==
    /\ pc = "streaming"
    /\ iteration = 1
    /\ Len(toolResults) = 2
    /\ ~toolResults[1].IsError
    /\ ~toolResults[2].IsError
    /\ Messages[Len(Messages)].Role = "tool"
    /\ ShapedFrom(Messages, 1)

====
